---- MODULE Spec2Model ----
(***************************************************************************)
(* Credential and session lifecycle of the auth service                    *)
(* (src/auth/src/auth/api.py, src/auth/src/auth/models.py,                 *)
(* src/auth/security.py, src/auth/database.py).                            *)
(*                                                                         *)
(* Every request handler runs in its own worker with its own database      *)
(* session (SessionLocal, autoflush=False).  A handler is cut into steps   *)
(* at its database accesses: a step is one query, or one commit, together  *)
(* with the local computation that follows it.  Steps of different         *)
(* requests interleave freely.  A commit flushes all pending changes of    *)
(* the session in one transaction, so it is one step.                      *)
(*                                                                         *)
(* The columns created_at of User and PasswordResetToken are written once  *)
(* and read by no handler; they are left out of the rows.                  *)
(***************************************************************************)
EXTENDS Integers, Sequences, FiniteSets, TLC

\* ---------------------------------------------------------------- bounds
\* Concurrent workers serving registrations.
MaxWorkers == 2
\* Salts the password hasher can draw.
MaxSalt == 1
\* Values the reset-token generator can draw.
MaxTokenValue == 1
\* Clock readings after a reset token's expiry instant that the clock visits.
MaxLate == 1
\* Values the raw API key generator can draw.
MaxRawKey == 2

\* ----------------------------------------------------- program constants
RESET_TOKEN_EXPIRE_MINUTES == 30
JWT_EXPIRE_MINUTES == 60
JWT_SECRET == "dev-insecure-secret-change"
JWT_ALGO == "HS256"

\* ------------------------------------------------------------ input sets
Workers == 1..MaxWorkers
Usernames == {"u1", "u2"}
Emails == {"e1", "e2"}
Passwords == {"pw1", "pw2"}
Names == {"Test User"}
Addresses == {"123 Test Ave"}
Salts == 1..MaxSalt
TokenValues == 1..MaxTokenValue
\* A token string the generator never draws.
UnknownToken == MaxTokenValue + 1
\* The token values of a store that holds several tokens at once.
SeveralTokenValues == 1..(MaxTokenValue + 1)
\* The instants the clock visits (minutes): the start, the expiry instant of
\* a reset token made at the start, and the instants after it.
Instants ==
  {0} \cup {RESET_TOKEN_EXPIRE_MINUTES + k : k \in 0..MaxLate}
\* The same for a session token made at the start.
SessionInstants ==
  {0} \cup {JWT_EXPIRE_MINUTES + k : k \in 0..MaxLate}
\* secrets.token_urlsafe(32): the raw API key values.
RawKeys == {[raw_key |-> n] : n \in 1..MaxRawKey}
\* Signing secrets: the configured one and another one.
Secrets == {JWT_SECRET, "another-secret"}

VARIABLES
  users,         \* table users: sequence of rows, row i has id i
  reset_tokens,  \* table password_reset_tokens: sequence of rows
  api_keys,      \* table api_keys: sequence of rows
  now,           \* the clock, dt.datetime.now(dt.UTC), in minutes
  req,           \* per worker: the request in flight and its session's objects
  resp,          \* the HTTP response sent by the last step, if any
  sent,          \* the send_reset_email call made by the last step, if any
  confirmed,     \* per token value: 200 responses of confirm_reset so far
  issued,        \* the session tokens login has returned, each with its user
  shown          \* per raw key value: 200 responses of create_apikey so far

vars ==
  <<users, reset_tokens, api_keys, now, req, resp, sent, confirmed, issued,
    shown>>

\* ------------------------------------------------------------ Secret codec
\* A digest that does not depend on the password.
pbkdf2_sha256_of_salt_only(salt, password) == <<"digest", salt>>

\* The digest PBKDF2-SHA256 computes from a salt and a password.
pbkdf2_sha256(salt, password) == <<"digest", salt, password>>

\* pwd_context.hash: scheme, salt and digest in one encoded value.
hash_password(password, salt) ==
  [scheme |-> "pbkdf2_sha256", salt |-> salt,
   digest |-> pbkdf2_sha256(salt, password)]

\* pwd_context.verify (line 11: the one scheme pbkdf2_sha256): the context
\* identifies the scheme of the hash and raises UnknownHashError (a
\* ValueError) when it is none of its schemes; the scheme's parser raises
\* ValueError on a hash of its scheme that is not complete; otherwise the
\* digest of the password under the hash's salt is compared with the
\* hash's digest.
pwd_context_verify(password, hashed) ==
  IF hashed.scheme # "pbkdf2_sha256"
  THEN [raised |-> "UnknownHashError", value |-> FALSE]
  ELSE IF DOMAIN hashed # {"scheme", "salt", "digest"}
  THEN [raised |-> "ValueError", value |-> FALSE]
  ELSE [raised |-> "none",
        value |-> pbkdf2_sha256(hashed.salt, password) = hashed.digest]

\* Lines 26-27: the call returns what the context returns and raises what
\* the context raises (nothing is caught).
verify_password_call(password, hashed) == pwd_context_verify(password, hashed)

\* The call returns True.
verify_password(password, hashed) ==
  LET outcome == verify_password_call(password, hashed) IN
  outcome.raised = "none" /\ outcome.value

\* dt.datetime.now(dt.UTC): a timezone-aware reading of the clock.
utc(minutes) == [minutes |-> minutes, tzinfo |-> "UTC"]

create_reset_expiry == utc(now + RESET_TOKEN_EXPIRE_MINUTES)

\* What a DateTime(timezone=True) column gives back: the configured store
\* (sqlite, DATABASE_URL) keeps the clock reading and drops the timezone.
stored_datetime(d) == [minutes |-> d.minutes, tzinfo |-> "none"]

\* A naive timestamp read as the reading of a clock one hour ahead of UTC.
as_utc_from_local(d) ==
  IF d.tzinfo = "none"
  THEN [minutes |-> d.minutes - 60, tzinfo |-> "UTC"]
  ELSE d

\* Lines 213-215 of confirm_reset: a naive timestamp is read as UTC.
as_utc(d) == IF d.tzinfo = "none" THEN [d EXCEPT !.tzinfo = "UTC"] ELSE d

\* a < b of two timezone-aware datetimes.
Before(a, b) == a.tzinfo = b.tzinfo /\ a.minutes < b.minutes

\* The HMAC-SHA256 signature of a payload under a secret.
HS256(secret, payload) == <<"HS256", secret, payload>>

\* jwt.encode(payload, secret, algorithm): a compact JWS.
jwt_encode(payload, secret, algorithm) ==
  [alg |-> algorithm, payload |-> payload,
   signature |-> HS256(secret, payload)]

create_access_token(sub) ==
  LET to_encode == [sub |-> sub, exp |-> now + JWT_EXPIRE_MINUTES]
  IN  jwt_encode(to_encode, JWT_SECRET, JWT_ALGO)

\* str(i) of an integer id.
str(i) == [str |-> i]

\* Optional[str]: a string, or None.
Some(string) == [some |-> TRUE, value |-> string]
None == [some |-> FALSE, value |-> ""]

\* A compact JWS has the three parts header, payload and signature; any
\* other string is malformed.
WellFormed(token) == DOMAIN token = {"alg", "payload", "signature"}

\* A decoder that checks no expiry.
jwt_decode_no_exp(token, secret, algorithms) ==
  IF ~WellFormed(token) THEN [raised |-> "JWTError"]
  ELSE IF token.alg \notin algorithms THEN [raised |-> "JWTError"]
  ELSE IF token.signature # HS256(secret, token.payload)
  THEN [raised |-> "JWTError"]
  ELSE [raised |-> "none", payload |-> token.payload]

\* jwt.decode(token, secret, algorithms=..): the parts are parsed, the
\* algorithm and the signature are checked, then the exp claim against the
\* clock (a token is expired when exp < now).  Every failure is a JWTError
\* (ExpiredSignatureError is one).
jwt_decode(token, secret, algorithms) ==
  IF ~WellFormed(token) THEN [raised |-> "JWTError"]
  ELSE IF token.alg \notin algorithms THEN [raised |-> "JWTError"]
  ELSE IF token.signature # HS256(secret, token.payload)
  THEN [raised |-> "JWTError"]
  ELSE IF "exp" \in DOMAIN token.payload /\ token.payload.exp < now
  THEN [raised |-> "ExpiredSignatureError"]
  ELSE [raised |-> "none", payload |-> token.payload]

\* decode_access_token with the signing secret as a parameter.
decode_with(token, secret) ==
  LET decoded == jwt_decode(token, secret, {JWT_ALGO}) IN
  IF decoded.raised # "none" THEN None
  ELSE IF "sub" \in DOMAIN decoded.payload THEN Some(decoded.payload.sub)
  ELSE None

decode_access_token(token) == decode_with(token, JWT_SECRET)

\* hashlib.sha256 of the raw key.
sha256(raw_key) == [sha256 |-> raw_key]

hash_api_key(raw_key) == sha256(raw_key)

\* ------------------------------------------------- Authorization header
\* A header value is a string; it is modelled as the sequence of its pieces,
\* each a whitespace character or a maximal run of other characters (a word).
\* A word is a scheme name or a credential.
Space == [kind |-> "space"]
Word(text) == [kind |-> "word", text |-> text]
Credential(token) == [kind |-> "credential", token |-> token]

\* The header argument: None when the request has no Authorization header.
NoHeader == [present |-> FALSE, value |-> <<>>]
Header(value) == [present |-> TRUE, value |-> value]

\* str.lower() of a piece.
lower(piece) ==
  IF piece.kind # "word" THEN piece
  ELSE IF piece.text \in {"Bearer", "BEARER", "bearer"} THEN Word("bearer")
  ELSE IF piece.text \in {"Basic", "basic"} THEN Word("basic")
  ELSE piece

\* value.lower().startswith("bearer ")
startswith_bearer(value) ==
  /\ Len(value) >= 2
  /\ lower(value[1]) = Word("bearer")
  /\ value[2] = Space

\* str.split(): the words, in order.
split(value) == SelectSeq(value, LAMBDA piece : piece.kind # "space")

\* The string a piece stands for, as a token to decode: a credential is its
\* token, and a scheme word is no JWS.
as_token(piece) ==
  IF piece.kind = "credential" THEN piece.token ELSE [text |-> piece.text]

\* --------------------------------------------------------------- responses
NoData == [none |-> TRUE]
NoResp == [op |-> "none", status |-> 0, detail |-> "", arg |-> NoData,
           data |-> NoData]
NoCall == [called |-> FALSE]
Idle == [pc |-> "idle"]

\* A response: the operation and the request field that names its subject,
\* the status code, the detail or message, and the payload.
Response(op, arg, status, detail, data) ==
  [op |-> op, arg |-> arg, status |-> status, detail |-> detail,
   data |-> data]

\* An HTTPException(status_code, detail) raised by a handler.
HTTPException(op, arg, status, detail) ==
  Response(op, arg, status, detail, NoData)

\* An exception no handler catches: the framework answers 500.
Unhandled(op, arg, exc) == Response(op, arg, 500, exc, NoData)

UserOut(u) ==
  [id |-> u.id, name |-> u.name, email |-> u.email, address |-> u.address,
   username |-> u.username]

\* ------------------------------------------------------- Credential store
\* A pre-check query that forgets the email.
find_user_by_username_only(username, email) ==
  SelectSeq(users, LAMBDA u : u.username = username)

\* A query is the sequence of the rows it selects, in id order; .first() is
\* its first row, and "not row" is the empty sequence.
find_user_by_username_or_email(username, email) ==
  SelectSeq(users, LAMBDA u : u.username = username \/ u.email = email)

\* A user query without its filter.
find_user_by_username_unfiltered(username) == users

find_user_by_username(username) ==
  SelectSeq(users, LAMBDA u : u.username = username)

find_user_by_email(email) == SelectSeq(users, LAMBDA u : u.email = email)

find_user_by_id(id) == SelectSeq(users, LAMBDA u : u.id = id)

find_reset_token(value) ==
  SelectSeq(reset_tokens, LAMBDA t : t.token = value)

\* A query that forgets the owner.
list_api_keys_of_everyone(user_id) == api_keys

\* Line 174: the keys whose user_id is the user's id.
list_api_keys(user_id) == SelectSeq(api_keys, LAMBDA k : k.user_id = user_id)

\* A lookup by id alone, whoever owns the key.
find_api_key_any_owner(id, user_id) ==
  SelectSeq(api_keys, LAMBDA k : k.id = id)

\* A lookup that skips the keys already revoked.
find_api_key_active(id, user_id) ==
  SelectSeq(api_keys,
            LAMBDA k : k.id = id /\ k.user_id = user_id /\ ~k.revoked)

\* Lines 180-181: the key with that id and that owner.
find_api_key(id, user_id) ==
  SelectSeq(api_keys, LAMBDA k : k.id = id /\ k.user_id = user_id)

\* A users table without the unique index on email.
UserUniqueViolation_username_only(username, email) ==
  \E i \in 1..Len(users) : users[i].username = username

\* The unique indexes of table users: username (models.py:17), email (:15).
UserUniqueViolation(username, email) ==
  \E i \in 1..Len(users) :
    users[i].username = username \/ users[i].email = email

\* The unique index of password_reset_tokens.token.
TokenUniqueViolation(value) ==
  \E i \in 1..Len(reset_tokens) : reset_tokens[i].token = value

\* An api_keys table without the unique index.
KeyUniqueViolation_no_index(key_hash) == FALSE

\* The unique index of api_keys.key_hash (models.py:32).
KeyUniqueViolation(key_hash) ==
  \E i \in 1..Len(api_keys) : api_keys[i].key_hash = key_hash

\* A worker takes a request when it is free; of the free workers the first
\* takes it (workers are interchangeable).
CanStart(w) ==
  /\ req[w].pc = "idle"
  /\ \A v \in Workers : v < w => req[v].pc # "idle"

\* init_db on an empty database, the clock at the start, no request.
Init ==
  /\ users = <<>>
  /\ reset_tokens = <<>>
  /\ api_keys = <<>>
  /\ now = 0
  /\ req = [w \in Workers |-> Idle]
  /\ resp = NoResp
  /\ sent = NoCall
  /\ confirmed = [v \in SeveralTokenValues |-> 0]
  /\ issued = {}
  /\ shown = [k \in RawKeys |-> 0]

\* db.close() in get_db: the session ends and the worker is free again.
Release(w) == req' = [req EXCEPT ![w] = Idle]

\* ------------------------------------------------------ get_current_user
\* Lines 106-119: the header test, split()[1], the token's subject, the user
\* query.  The outcome is the user, an HTTPException, or the IndexError that
\* split()[1] raises when the value has one word.
get_current_user(authorization) ==
  IF \/ ~authorization.present
     \/ authorization.value = <<>>
     \/ ~startswith_bearer(authorization.value)
  THEN [raised |-> "HTTPException", status |-> 401,
        detail |-> "Not authenticated"]
  ELSE IF Len(split(authorization.value)) < 2
  THEN [raised |-> "IndexError", status |-> 500, detail |-> "IndexError"]
  ELSE LET token == as_token(split(authorization.value)[2])
           username == decode_access_token(token)
       IN IF ~username.some \/ username.value = ""
          THEN [raised |-> "HTTPException", status |-> 401,
                detail |-> "Invalid token"]
          ELSE IF Len(find_user_by_username(username.value)) = 0
          THEN [raised |-> "HTTPException", status |-> 401,
                detail |-> "User not found"]
          ELSE [raised |-> "none", status |-> 200, detail |-> "",
                user |-> find_user_by_username(username.value)[1]]

\* The response when the dependency get_current_user raises.
Refused(op, outcome) ==
  IF outcome.raised = "HTTPException"
  THEN HTTPException(op, NoData, outcome.status, outcome.detail)
  ELSE Unhandled(op, NoData, outcome.raised)

\* Lines 156-158, GET /auth/me: the current user's profile.
me(w, authorization) ==
  /\ CanStart(w)
  /\ LET outcome == get_current_user(authorization) IN
     resp' = IF outcome.raised # "none" THEN Refused("me", outcome)
             ELSE Response("me", NoData, 200, "", UserOut(outcome.user))
  /\ sent' = NoCall
  /\ UNCHANGED <<users, reset_tokens, api_keys, now, req, confirmed, issued,
               shown>>

\* -------------------------------------------------------------- register
\* Lines 129-132: the existence pre-check.
register_query(w, user_in) ==
  /\ CanStart(w)
  /\ IF Len(find_user_by_username_or_email(user_in.username, user_in.email)) > 0
     THEN /\ resp' = HTTPException("register",
                       [username |-> user_in.username, email |-> user_in.email],
                       400, "Username or email already exists")
          /\ UNCHANGED req
     ELSE /\ req' = [req EXCEPT ![w] =
                 [pc |-> "register_commit", user_in |-> user_in]]
          /\ resp' = NoResp
  /\ sent' = NoCall
  /\ UNCHANGED <<users, reset_tokens, api_keys, now, confirmed, issued,
               shown>>

\* An insert that stores the user before its hash is computed.
insert_user_without_hash(user) ==
  users' = Append(users,
    [id |-> Len(users) + 1, name |-> user.name, email |-> user.email,
     address |-> user.address, username |-> user.username,
     password_hash |-> [scheme |-> "", text |-> ""], is_active |-> TRUE])

\* An insert that stores the user as inactive.
insert_user_inactive(user) ==
  users' = Append(users,
    [id |-> Len(users) + 1, name |-> user.name, email |-> user.email,
     address |-> user.address, username |-> user.username,
     password_hash |-> user.password_hash, is_active |-> FALSE])

\* INSERT INTO users: the row gets the next id and the column defaults.
insert_user(user) ==
  users' = Append(users,
    [id |-> Len(users) + 1, name |-> user.name, email |-> user.email,
     address |-> user.address, username |-> user.username,
     password_hash |-> user.password_hash, is_active |-> TRUE])

\* Lines 133-143: the User with the salted hash of the password (the salt is
\* the hasher's draw), db.add, db.commit, db.refresh.  The unique indexes
\* reject a duplicate with IntegrityError, which register does not catch.
register_commit(w, salt) ==
  /\ req[w].pc = "register_commit"
  /\ LET user_in == req[w].user_in
         arg == [username |-> user_in.username, email |-> user_in.email]
     IN
     IF UserUniqueViolation(user_in.username, user_in.email)
     THEN /\ resp' = Unhandled("register", arg, "IntegrityError")
          /\ UNCHANGED users
     ELSE /\ insert_user([name |-> user_in.name, email |-> user_in.email,
                          address |-> user_in.address,
                          username |-> user_in.username,
                          password_hash |->
                            hash_password(user_in.password, salt)])
          /\ resp' = Response("register", arg, 200, "",
                              UserOut(users'[Len(users')]))
  /\ Release(w)
  /\ sent' = NoCall
  /\ UNCHANGED <<reset_tokens, api_keys, now, confirmed, issued,
               shown>>

\* ----------------------------------------------------------------- login
\* A check that forgets the password.
login_accepts_any_password(username, password) ==
  Len(find_user_by_username(username)) > 0

\* Lines 148-149: the user is stored and the password verifies.
login_accepts(username, password) ==
  LET found == find_user_by_username(username) IN
  /\ Len(found) > 0
  /\ verify_password(password, found[1].password_hash)

\* Line 148: the password check of a stored user raises.
login_raises(username, password) ==
  LET found == find_user_by_username(username) IN
  IF Len(found) = 0
  THEN "none"
  ELSE verify_password_call(password, found[1].password_hash).raised

\* Lines 148-151: the user query, the password check, the session token.
login_query(w, username, password) ==
  /\ CanStart(w)
  /\ IF login_raises(username, password) # "none"
     THEN /\ resp' = Unhandled("login", [username |-> username],
                               login_raises(username, password))
          /\ UNCHANGED req
     ELSE IF ~login_accepts(username, password)
     THEN /\ resp' = HTTPException("login", [username |-> username], 400,
                                   "Invalid credentials")
          /\ UNCHANGED req
     ELSE /\ req' = [req EXCEPT ![w] =
                 [pc |-> "login_keys",
                  user |-> UserOut(find_user_by_username(username)[1]),
                  token |-> create_access_token(username)]]
          /\ resp' = NoResp
  /\ sent' = NoCall
  /\ UNCHANGED <<users, reset_tokens, api_keys, now, confirmed, issued,
               shown>>

\* A key list that keeps the revoked keys.
active_keys_of_with_revoked(user_id) ==
  SelectSeq(api_keys, LAMBDA k : k.user_id = user_id)

\* Line 152: the keys of user.api_keys that are not revoked.
active_keys_of(user_id) ==
  SelectSeq(api_keys, LAMBDA k : k.user_id = user_id /\ ~k.revoked)

\* Lines 152-153: user.api_keys is loaded on first use, then the response.
login_keys(w) ==
  /\ req[w].pc = "login_keys"
  /\ LET keys == active_keys_of(req[w].user.id)
     IN resp' = Response("login", [username |-> req[w].user.username], 200, "",
          [access_token |-> req[w].token, token_type |-> "bearer",
           user |-> req[w].user,
           api_keys |-> [i \in 1..Len(keys) |-> str(keys[i].id)]])
  /\ issued' = issued \cup
       {[token |-> req[w].token, user_id |-> req[w].user.id]}
  /\ Release(w)
  /\ sent' = NoCall
  /\ UNCHANGED <<users, reset_tokens, api_keys, now, confirmed, shown>>

\* ---------------------------------------------------------------- API keys
\* A key listing that carries the key hash.
APIKeyOut_with_hash(k) ==
  [id |-> k.id, created_at |-> k.created_at, revoked |-> k.revoked,
   key_hash |-> k.key_hash]

\* The response model of a listed key (lines 72-77).
APIKeyOut(k) ==
  [id |-> k.id, created_at |-> k.created_at, revoked |-> k.revoked]

\* An insert that writes the other rows back as they were created.
insert_api_key_rewriting(key_hash, user_id) ==
  api_keys' = Append([i \in 1..Len(api_keys) |->
                        [api_keys[i] EXCEPT !.revoked = FALSE]],
    [id |-> Len(api_keys) + 1, key_hash |-> key_hash, user_id |-> user_id,
     created_at |-> stored_datetime(utc(now)), revoked |-> FALSE])

\* An insert that gives every key to the first user.
insert_api_key_first_user(key_hash, user_id) ==
  api_keys' = Append(api_keys,
    [id |-> Len(api_keys) + 1, key_hash |-> key_hash, user_id |-> 1,
     created_at |-> stored_datetime(utc(now)), revoked |-> FALSE])

\* INSERT INTO api_keys, with the column defaults created_at = now and
\* revoked = False.
insert_api_key(key_hash, user_id) ==
  api_keys' = Append(api_keys,
    [id |-> Len(api_keys) + 1, key_hash |-> key_hash, user_id |-> user_id,
     created_at |-> stored_datetime(utc(now)), revoked |-> FALSE])

\* An update that flips the flag.
mark_api_key_revoked_toggle(id) ==
  api_keys' = [api_keys EXCEPT ![id].revoked = ~@]

\* A commit that loses the update of the revoked flag.
mark_api_key_revoked_lost(id) == UNCHANGED api_keys

\* UPDATE api_keys SET revoked = 1 WHERE id = ..
mark_api_key_revoked(id) ==
  api_keys' = [api_keys EXCEPT ![id].revoked = TRUE]

\* The dependency get_current_user of an API-key request: refused, or the
\* request goes on to the place next with the user's id and its fields.
Authenticate(w, op, authorization, next) ==
  /\ CanStart(w)
  /\ LET outcome == get_current_user(authorization) IN
     IF outcome.raised # "none"
     THEN /\ resp' = Refused(op, outcome)
          /\ UNCHANGED req
     ELSE /\ req' = [req EXCEPT ![w] =
                 next @@ [user_id |-> outcome.user.id]]
          /\ resp' = NoResp
  /\ sent' = NoCall
  /\ UNCHANGED <<users, reset_tokens, api_keys, now, confirmed, issued,
               shown>>

\* create_apikey, line 162: the dependency.
create_apikey_auth(w, authorization) ==
  Authenticate(w, "create_apikey", authorization,
               [pc |-> "create_apikey_commit"])

\* Lines 163-169: the raw key (raw_key is the generator's draw), its hash,
\* db.add, db.commit, db.refresh.  The unique index on key_hash rejects a
\* hash that is already stored with IntegrityError, which is not caught.
create_apikey_commit(w, raw_key) ==
  /\ req[w].pc = "create_apikey_commit"
  /\ LET hashed == hash_api_key(raw_key) IN
     IF KeyUniqueViolation(hashed)
     THEN /\ resp' = Unhandled("create_apikey", NoData, "IntegrityError")
          /\ UNCHANGED <<api_keys, shown>>
     ELSE /\ insert_api_key(hashed, req[w].user_id)
          /\ resp' = Response("create_apikey", NoData, 200, "",
               [id |-> api_keys'[Len(api_keys')].id, raw_key |-> raw_key])
          /\ shown' = [shown EXCEPT ![raw_key] = @ + 1]
  /\ Release(w)
  /\ sent' = NoCall
  /\ UNCHANGED <<users, reset_tokens, now, confirmed, issued>>

\* list_apikeys, line 173: the dependency.
list_apikeys_auth(w, authorization) ==
  Authenticate(w, "list_apikeys", authorization,
               [pc |-> "list_apikeys_query"])

\* A listing that also drops the revoked keys from the table.
list_apikeys_query_purging(w) ==
  /\ req[w].pc = "list_apikeys_query"
  /\ LET keys == list_api_keys(req[w].user_id) IN
     resp' = Response("list_apikeys", NoData, 200, "",
               [i \in 1..Len(keys) |-> APIKeyOut(keys[i])])
  /\ api_keys' = SelectSeq(api_keys, LAMBDA k : ~k.revoked)
  /\ Release(w)
  /\ sent' = NoCall
  /\ UNCHANGED <<users, reset_tokens, now, confirmed, issued, shown>>

\* Lines 174-175: the user's keys, each as an APIKeyOut.
list_apikeys_query(w) ==
  /\ req[w].pc = "list_apikeys_query"
  /\ LET keys == list_api_keys(req[w].user_id) IN
     resp' = Response("list_apikeys", NoData, 200, "",
               [i \in 1..Len(keys) |-> APIKeyOut(keys[i])])
  /\ Release(w)
  /\ sent' = NoCall
  /\ UNCHANGED <<users, reset_tokens, api_keys, now, confirmed, issued,
               shown>>

\* revoke_apikey, line 179: the dependency.
revoke_apikey_auth(w, authorization, key_id) ==
  Authenticate(w, "revoke_apikey", authorization,
               [pc |-> "revoke_apikey_query", key_id |-> key_id])

\* Lines 180-184: the key with that id owned by the user; the session keeps
\* the row it read.
revoke_apikey_query(w) ==
  /\ req[w].pc = "revoke_apikey_query"
  /\ LET found == find_api_key(req[w].key_id, req[w].user_id) IN
     IF Len(found) = 0
     THEN /\ resp' = HTTPException("revoke_apikey",
                                   [key_id |-> req[w].key_id], 404,
                                   "API key not found")
          /\ Release(w)
     ELSE /\ req' = [req EXCEPT ![w] =
               [pc |-> "revoke_apikey_commit", user_id |-> req[w].user_id,
                key_id |-> found[1].id, revoked |-> found[1].revoked]]
          /\ resp' = NoResp
  /\ sent' = NoCall
  /\ UNCHANGED <<users, reset_tokens, api_keys, now, confirmed, issued,
               shown>>

\* Lines 184-186: key.revoked = True, db.commit, the message.  The response
\* is recorded with the key's id and the flag the session had read.
revoke_apikey_commit(w) ==
  /\ req[w].pc = "revoke_apikey_commit"
  /\ mark_api_key_revoked(req[w].key_id)
  /\ resp' = Response("revoke_apikey",
                      [key_id |-> req[w].key_id, revoked |-> req[w].revoked],
                      200, "API key revoked", NoData)
  /\ Release(w)
  /\ sent' = NoCall
  /\ UNCHANGED <<users, reset_tokens, now, confirmed, issued, shown>>

\* ---------------------------------------------------------- request_reset
GenericAck == "If the email exists a reset link was sent"

\* Lines 191-193: the lookup by email.
request_reset_query(w, email) ==
  /\ CanStart(w)
  /\ LET found == find_user_by_email(email) IN
     IF Len(found) = 0
     THEN /\ resp' = Response("request_reset", [email |-> email], 200,
                              GenericAck, NoData)
          /\ UNCHANGED req
     ELSE /\ req' = [req EXCEPT ![w] =
                 [pc |-> "request_reset_commit", email |-> email,
                  user |-> UserOut(found[1])]]
          /\ resp' = NoResp
  /\ sent' = NoCall
  /\ UNCHANGED <<users, reset_tokens, api_keys, now, confirmed, issued,
               shown>>

\* A reset token stored with the creation instant as its expiry.
insert_reset_token_no_ttl(token_value, user_id, expires_at) ==
  reset_tokens' = Append(reset_tokens,
    [id |-> Len(reset_tokens) + 1, token |-> token_value, user_id |-> user_id,
     expires_at |-> stored_datetime(utc(now)), used |-> FALSE])

\* An insert that stores the id of no user as the owner.
insert_reset_token_orphan(token_value, user_id, expires_at) ==
  reset_tokens' = Append(reset_tokens,
    [id |-> Len(reset_tokens) + 1, token |-> token_value,
     user_id |-> Len(users) + 1,
     expires_at |-> stored_datetime(expires_at), used |-> FALSE])

\* INSERT INTO password_reset_tokens, with the column default used=False.
insert_reset_token(token_value, user_id, expires_at) ==
  reset_tokens' = Append(reset_tokens,
    [id |-> Len(reset_tokens) + 1, token |-> token_value, user_id |-> user_id,
     expires_at |-> stored_datetime(expires_at), used |-> FALSE])

\* Lines 194-201: generate_token (token_value is the generator's draw), the
\* expiry, db.add and db.commit.  The unique index on token rejects a value
\* that is already stored with IntegrityError, which is not caught.
request_reset_commit(w, token_value) ==
  /\ req[w].pc = "request_reset_commit"
  /\ IF TokenUniqueViolation(token_value)
     THEN /\ resp' = Unhandled("request_reset", [email |-> req[w].email],
                               "IntegrityError")
          /\ Release(w)
          /\ UNCHANGED reset_tokens
     ELSE /\ insert_reset_token(token_value, req[w].user.id,
                                create_reset_expiry)
          /\ req' = [req EXCEPT ![w] =
               [pc |-> "request_reset_send", email |-> req[w].email,
                user |-> req[w].user, token_value |-> token_value]]
          /\ resp' = NoResp
  /\ sent' = NoCall
  /\ UNCHANGED <<users, api_keys, now, confirmed, issued,
               shown>>

\* A delivery of a value drawn again instead of the persisted one.
send_reset_email_regenerated(email, token, ok) ==
  sent' = [called |-> TRUE, email |-> email, token |-> token + 1, ok |-> ok]

\* Lines 122-125: the delivery collaborator is called with the address and
\* the token; it returns (ok) or it raises.
send_reset_email(email, token, ok) ==
  sent' = [called |-> TRUE, email |-> email, token |-> token, ok |-> ok]

\* Lines 202-203: the delivery call is not guarded; when it raises, the
\* exception leaves the handler.
request_reset_send(w, ok) ==
  /\ req[w].pc = "request_reset_send"
  /\ send_reset_email(req[w].user.email, req[w].token_value, ok)
  /\ resp' = IF ok
             THEN Response("request_reset", [email |-> req[w].email], 200,
                           GenericAck, NoData)
             ELSE Unhandled("request_reset", [email |-> req[w].email],
                            "DeliveryError")
  /\ Release(w)
  /\ UNCHANGED <<users, reset_tokens, api_keys, now, confirmed, issued,
               shown>>

\* ---------------------------------------------------------- confirm_reset
\* A gate that forgets the used flag.
Rejected_expiry_only(token, now_utc) ==
  Before(as_utc(token.expires_at), now_utc)

\* A gate that rejects only a token that is both used and expired.
Rejected_conjunctive(token, now_utc) ==
  token.used /\ Before(as_utc(token.expires_at), now_utc)

\* A gate that rejects at the expiry instant too.
Rejected_at_expiry(token, now_utc) ==
  \/ token.used
  \/ Before(as_utc(token.expires_at), now_utc)
  \/ as_utc(token.expires_at) = now_utc

\* Lines 213-216: the gate on the token object the session read.
Rejected(token, now_utc) ==
  token.used \/ Before(as_utc(token.expires_at), now_utc)

\* Lines 208-220: the token query, the clock, the used/expiry gate, and the
\* owner query.  No handler deletes a user or changes an id, so the owner
\* query finds the same row whenever it runs; it is taken in the same step.
confirm_reset_query(w, token_value, new_password) ==
  /\ CanStart(w)
  /\ LET found == find_reset_token(token_value)
         now_utc == utc(now)
         arg == [token |-> token_value]
     IN
     IF Len(found) = 0 \/ Rejected(found[1], now_utc)
     THEN /\ resp' = HTTPException("confirm_reset", arg, 400,
                                   "Invalid or expired token")
          /\ UNCHANGED req
     ELSE IF Len(find_user_by_id(found[1].user_id)) = 0
     THEN /\ resp' = HTTPException("confirm_reset", arg, 400,
                                   "User not found")
          /\ UNCHANGED req
     ELSE /\ req' = [req EXCEPT ![w] =
               [pc |-> "confirm_reset_commit", token |-> found[1],
                now_utc |-> now_utc,
                user_id |-> find_user_by_id(found[1].user_id)[1].id,
                new_password |-> new_password]]
          /\ resp' = NoResp
  /\ sent' = NoCall
  /\ UNCHANGED <<users, reset_tokens, api_keys, now, confirmed, issued,
               shown>>

\* A commit that loses the update of the password hash.
update_user_password_hash_lost(user_id, new_hash) == UNCHANGED users

\* An update that writes the new salt and keeps the digest it found.
update_user_password_hash_mixed(user_id, new_hash) ==
  users' = [users EXCEPT ![user_id].password_hash =
              [new_hash EXCEPT !.digest = users[user_id].password_hash.digest]]

\* An update that gives the row a new username too.
update_user_password_hash_and_username(user_id, new_hash) ==
  users' = [users EXCEPT ![user_id].password_hash = new_hash,
                         ![user_id].username = "reset"]

\* An update without its WHERE clause.
update_user_password_hash_of_all(user_id, new_hash) ==
  users' = [i \in 1..Len(users) |->
              [users[i] EXCEPT !.password_hash = new_hash]]

\* UPDATE users SET password_hash = .. WHERE id = ..
update_user_password_hash(user_id, new_hash) ==
  users' = [users EXCEPT ![user_id].password_hash = new_hash]

\* An update that marks every stored token used.
mark_reset_token_used_every(id) ==
  reset_tokens' = [i \in 1..Len(reset_tokens) |->
                     [reset_tokens[i] EXCEPT !.used = TRUE]]

\* A commit that loses the update of the used flag.
mark_reset_token_used_lost(id) == UNCHANGED reset_tokens

\* UPDATE password_reset_tokens SET used = 1 WHERE id = ..
mark_reset_token_used(id) ==
  reset_tokens' = [reset_tokens EXCEPT ![id].used = TRUE]

\* Lines 221-224: the salted hash of the new password (the salt is the
\* hasher's draw), then db.commit, which flushes both updates in one
\* transaction; the updates address their rows by primary key and test
\* nothing else.
confirm_reset_commit(w, salt) ==
  /\ req[w].pc = "confirm_reset_commit"
  /\ update_user_password_hash(req[w].user_id,
                               hash_password(req[w].new_password, salt))
  /\ mark_reset_token_used(req[w].token.id)
  /\ resp' = Response("confirm_reset", [token |-> req[w].token.token], 200,
                      "Password reset successful", NoData)
  /\ confirmed' = [confirmed EXCEPT ![req[w].token.token] = @ + 1]
  /\ Release(w)
  /\ sent' = NoCall
  /\ UNCHANGED <<api_keys, now, issued, shown>>

\* The clock advances to a later instant.
Tick(n) ==
  /\ n > now
  /\ now' = n
  /\ resp' = NoResp
  /\ sent' = NoCall
  /\ UNCHANGED <<users, reset_tokens, api_keys, req, confirmed, issued,
               shown>>

\* security.verify_password called with a password and a hash (lines 26-27);
\* the outcome is recorded as the last response: the exception raised, if
\* any, and the value returned otherwise.
verify_password_applied(w, password, hashed) ==
  /\ CanStart(w)
  /\ LET outcome == verify_password_call(password, hashed) IN
     resp' = Response("verify_password",
                      [password |-> password, hashed |-> hashed], 0,
                      outcome.raised,
                      IF outcome.raised = "none"
                      THEN [value |-> outcome.value]
                      ELSE NoData)
  /\ sent' = NoCall
  /\ UNCHANGED <<users, reset_tokens, api_keys, now, req, confirmed, issued,
               shown>>

\* --------------------------------------------------------- specifications
UserIn ==
  [name : Names, email : Emails, address : Addresses, username : Usernames,
   password : Passwords]

\* Concurrent registrations, of every input.
NextRegister ==
  \/ \E w \in Workers, user_in \in UserIn : register_query(w, user_in)
  \/ \E w \in Workers, salt \in Salts : register_commit(w, salt)

SpecRegister == Init /\ [][NextRegister]_vars

\* The password-reset lifecycle is explored with two requests at a time and
\* one account: u1 registers with e1 and pw1, and e2 is the address of no
\* account.
Pair == {w \in Workers : w <= 2}

ResetUserIn ==
  {u \in UserIn : u.username = "u1" /\ u.email = "e1" /\ u.password = "pw1"}

Next ==
  \/ \E n \in Instants : Tick(n)
  \/ \E w \in Pair, user_in \in ResetUserIn : register_query(w, user_in)
  \/ \E w \in Pair, salt \in Salts : register_commit(w, salt)
  \/ \E w \in Pair, e \in Emails : request_reset_query(w, e)
  \/ \E w \in Pair, v \in TokenValues : request_reset_commit(w, v)
  \/ \E w \in Pair, ok \in BOOLEAN : request_reset_send(w, ok)
  \/ \E w \in Pair, v \in TokenValues \cup {UnknownToken}, p \in Passwords :
       confirm_reset_query(w, v, p)
  \/ \E w \in Pair, salt \in Salts : confirm_reset_commit(w, salt)

Spec == Init /\ [][Next]_vars

\* Sessions are explored with one request at a time, two accounts, u1/e1/pw1
\* and u2/e2/pw2, and a clock that passes the expiry of a session token made
\* at the start; the clock may advance between the steps of a request.
One == {w \in Workers : w <= 1}

SessionUserIn ==
  {u \in UserIn : \/ u.username = "u1" /\ u.email = "e1" /\ u.password = "pw1"
                  \/ u.username = "u2" /\ u.email = "e2" /\ u.password = "pw2"}

\* The tokens a client may present.  Payloads: every subject (a username,
\* the empty string, none at all) with every expiry a token made at a visited
\* instant has.
SessionPayloads ==
  [sub : Usernames \cup {""},
   exp : {n + JWT_EXPIRE_MINUTES : n \in SessionInstants}]
  \cup {[exp |-> 2 * JWT_EXPIRE_MINUTES]}

\* A string that is no JWS.
Garbage == [text |-> "garbage"]

\* Tokens that are not what the issuer makes: signed with another secret,
\* of another algorithm, or no JWS.
ForgedTokens ==
  {jwt_encode(p, k, JWT_ALGO) : p \in SessionPayloads, k \in Secrets \ {JWT_SECRET}}
  \cup {jwt_encode(p, JWT_SECRET, "none") : p \in SessionPayloads}
  \cup {Garbage}

\* The tokens presented: every payload signed as the issuer signs, a forgery
\* of each kind for one payload, and the string that is no JWS.
SessionTokens ==
  {jwt_encode(p, JWT_SECRET, JWT_ALGO) : p \in SessionPayloads}
  \cup {f \in ForgedTokens :
          \/ f = Garbage
          \/ f.payload = [sub |-> "u1", exp |-> 2 * JWT_EXPIRE_MINUTES]}

\* Authorization: Bearer <token>
BearerHeader(token) == Header(<<Word("Bearer"), Space, Credential(token)>>)

\* Other header values with a token.
OtherHeadersOf(token) ==
  {Header(<<Word("bearer"), Space, Space, Credential(token)>>),
   Header(<<Word("Basic"), Space, Credential(token)>>),
   Header(<<Credential(token)>>)}

\* The header values without a token.
BareHeaders ==
  {NoHeader, Header(<<>>), Header(<<Space>>), Header(<<Word("Bearer")>>),
   Header(<<Word("Bearer"), Space>>), Header(<<Word("BEARER"), Space, Space>>),
   Header(<<Word("Basic"), Space>>),
   Header(<<Word("Bearer"), Space, Word("Bearer")>>)}

SessionHeaders ==
  BareHeaders
  \cup {BearerHeader(t) : t \in SessionTokens}
  \cup UNION {OtherHeadersOf(jwt_encode(p, JWT_SECRET, JWT_ALGO)) :
               p \in {q \in SessionPayloads :
                        q = [sub |-> "u1", exp |-> JWT_EXPIRE_MINUTES]}}

NextSession ==
  \/ \E n \in SessionInstants : Tick(n)
  \/ \E w \in One, user_in \in SessionUserIn : register_query(w, user_in)
  \/ \E w \in One, salt \in Salts : register_commit(w, salt)
  \/ \E w \in One, username \in Usernames, password \in Passwords :
       login_query(w, username, password)
  \/ \E w \in One : login_keys(w)
  \/ \E w \in One, authorization \in SessionHeaders : me(w, authorization)

SpecSession == Init /\ [][NextSession]_vars

\* API-key requests carry a session token that login returned, or no header;
\* the key ids a client names are the ids the store can hold and one more.
KeysHeaders == {NoHeader} \cup {BearerHeader(t.token) : t \in issued}

KeyIds == 1..(MaxRawKey + 1)

\* Concurrent API-key requests: two requests at a time, the account u1.
NextKeys ==
  \/ \E w \in Pair, user_in \in ResetUserIn : register_query(w, user_in)
  \/ \E w \in Pair, salt \in Salts : register_commit(w, salt)
  \/ \E w \in Pair, user_in \in ResetUserIn :
       login_query(w, user_in.username, user_in.password)
  \/ \E w \in Pair : login_keys(w)
  \/ \E w \in Pair, authorization \in KeysHeaders :
       create_apikey_auth(w, authorization)
  \/ \E w \in Pair, raw_key \in RawKeys : create_apikey_commit(w, raw_key)
  \/ \E w \in Pair, authorization \in KeysHeaders :
       list_apikeys_auth(w, authorization)
  \/ \E w \in Pair : list_apikeys_query(w)
  \/ \E w \in Pair, authorization \in KeysHeaders, key_id \in KeyIds :
       revoke_apikey_auth(w, authorization, key_id)
  \/ \E w \in Pair : revoke_apikey_query(w)
  \/ \E w \in Pair : revoke_apikey_commit(w)

SpecKeys == Init /\ [][NextKeys]_vars

\* The keys of two owners: one request at a time, the accounts u1 and u2.
NextOwners ==
  \/ \E w \in One, user_in \in SessionUserIn : register_query(w, user_in)
  \/ \E w \in One, salt \in Salts : register_commit(w, salt)
  \/ \E w \in One, user_in \in SessionUserIn :
       login_query(w, user_in.username, user_in.password)
  \/ \E w \in One : login_keys(w)
  \/ \E w \in One, authorization \in KeysHeaders : me(w, authorization)
  \/ \E w \in One, authorization \in KeysHeaders :
       create_apikey_auth(w, authorization)
  \/ \E w \in One, raw_key \in RawKeys : create_apikey_commit(w, raw_key)
  \/ \E w \in One, authorization \in KeysHeaders :
       list_apikeys_auth(w, authorization)
  \/ \E w \in One : list_apikeys_query(w)
  \/ \E w \in One, authorization \in KeysHeaders, key_id \in KeyIds :
       revoke_apikey_auth(w, authorization, key_id)
  \/ \E w \in One : revoke_apikey_query(w)
  \/ \E w \in One : revoke_apikey_commit(w)

SpecOwners == Init /\ [][NextOwners]_vars

\* Every operation of the service: one request at a time, the account u1.
NextLifecycle ==
  \/ \E w \in One, user_in \in ResetUserIn : register_query(w, user_in)
  \/ \E w \in One, salt \in Salts : register_commit(w, salt)
  \/ \E w \in One, user_in \in ResetUserIn, password \in Passwords :
       login_query(w, user_in.username, password)
  \/ \E w \in One : login_keys(w)
  \/ \E w \in One, authorization \in KeysHeaders : me(w, authorization)
  \/ \E w \in One, authorization \in KeysHeaders :
       create_apikey_auth(w, authorization)
  \/ \E w \in One, raw_key \in RawKeys : create_apikey_commit(w, raw_key)
  \/ \E w \in One, authorization \in KeysHeaders :
       list_apikeys_auth(w, authorization)
  \/ \E w \in One : list_apikeys_query(w)
  \/ \E w \in One, authorization \in KeysHeaders, key_id \in KeyIds :
       revoke_apikey_auth(w, authorization, key_id)
  \/ \E w \in One : revoke_apikey_query(w)
  \/ \E w \in One : revoke_apikey_commit(w)
  \/ \E w \in One, user_in \in ResetUserIn :
       request_reset_query(w, user_in.email)
  \/ \E w \in One, v \in TokenValues : request_reset_commit(w, v)
  \/ \E w \in One, ok \in BOOLEAN : request_reset_send(w, ok)
  \/ \E w \in One, v \in TokenValues, p \in Passwords :
       confirm_reset_query(w, v, p)
  \/ \E w \in One, salt \in Salts : confirm_reset_commit(w, salt)

SpecLifecycle == Init /\ [][NextLifecycle]_vars

\* The password codec: registrations of two accounts store hashes, and
\* verify_password is called with passwords and hashes, stored and
\* malformed.  A hash is written with the scheme its prefix names ("" when
\* it names none) and the parts that follow.
Plaintexts == Passwords \cup {"", "PW1"}

MalformedHashes ==
  {[scheme |-> "", text |-> ""],
   [scheme |-> "", text |-> "pw1"],
   [scheme |-> "bcrypt", salt |-> 1,
    digest |-> pbkdf2_sha256(1, "pw1")],
   [scheme |-> "pbkdf2_sha256", salt |-> 1],
   [scheme |-> "pbkdf2_sha256", digest |-> pbkdf2_sha256(1, "pw1")]}

StoredHashes == {users[i].password_hash : i \in 1..Len(users)}

NextVerify ==
  \/ \E w \in One, user_in \in SessionUserIn : register_query(w, user_in)
  \/ \E w \in One, salt \in Salts : register_commit(w, salt)
  \/ \E w \in One, password \in Plaintexts,
        hashed \in StoredHashes \cup MalformedHashes :
       verify_password_applied(w, password, hashed)

SpecVerify == Init /\ [][NextVerify]_vars

\* Every operation with two accounts, one request at a time: both accounts
\* register and reset their passwords, and u1 logs in and works on its
\* keys.  One raw key is drawn, and the revocations name the first ids.
FrameRawKeys == {k \in RawKeys : k.raw_key <= 1}

FrameKeyIds == {id \in KeyIds : id <= 2}

NextFrame ==
  \/ \E w \in One, user_in \in SessionUserIn : register_query(w, user_in)
  \/ \E w \in One, salt \in Salts : register_commit(w, salt)
  \/ \E w \in One, user_in \in ResetUserIn, password \in Passwords :
       login_query(w, user_in.username, password)
  \/ \E w \in One : login_keys(w)
  \/ \E w \in One, authorization \in KeysHeaders : me(w, authorization)
  \/ \E w \in One, authorization \in KeysHeaders :
       create_apikey_auth(w, authorization)
  \/ \E w \in One, raw_key \in FrameRawKeys :
       create_apikey_commit(w, raw_key)
  \/ \E w \in One, authorization \in KeysHeaders :
       list_apikeys_auth(w, authorization)
  \/ \E w \in One : list_apikeys_query(w)
  \/ \E w \in One, authorization \in KeysHeaders, key_id \in FrameKeyIds :
       revoke_apikey_auth(w, authorization, key_id)
  \/ \E w \in One : revoke_apikey_query(w)
  \/ \E w \in One : revoke_apikey_commit(w)
  \/ \E w \in One, email \in Emails : request_reset_query(w, email)
  \/ \E w \in One, v \in TokenValues : request_reset_commit(w, v)
  \/ \E w \in One, ok \in BOOLEAN : request_reset_send(w, ok)
  \/ \E w \in One, v \in TokenValues, p \in Passwords :
       confirm_reset_query(w, v, p)
  \/ \E w \in One, salt \in Salts : confirm_reset_commit(w, salt)

SpecFrame == Init /\ [][NextFrame]_vars

\* The end-to-end scenario of the tests (test_auth.py:44-129), as one client
\* that sends each request when the one before it is answered as the
\* scenario says: it registers u1 with pw1, logs in, asks who it is with the
\* session token T, issues a key K, revokes K, lists its keys, requests a
\* reset for u1's address, which delivers R, confirms R with pw2, logs in
\* with pw1 and with pw2, and confirms R again with pw3.  The salts, the raw
\* key and the token value are drawn by the service; the clock may advance
\* by a few minutes while a request is served.
ScenarioInstants == 1..(MaxLate + 1)

ScenarioHeaders == {BearerHeader(t.token) : t \in issued}

Answered(op, status) == resp.op = op /\ resp.status = status

NextScenario ==
  \/ \E n \in ScenarioInstants :
       (\E w \in One : req[w].pc # "idle") /\ Tick(n)
  \/ \E w \in One, user_in \in ResetUserIn :
       users = <<>> /\ register_query(w, user_in)
  \/ \E w \in One, salt \in Salts : register_commit(w, salt)
  \/ \E w \in One :
       Answered("register", 200) /\ login_query(w, "u1", "pw1")
  \/ \E w \in One : login_keys(w)
  \/ \E w \in One :
       /\ Answered("login", 200) /\ reset_tokens = <<>>
       /\ me(w, BearerHeader(resp.data.access_token))
  \/ \E w \in One, authorization \in ScenarioHeaders :
       /\ Answered("me", 200) /\ resp.data.username = "u1"
       /\ create_apikey_auth(w, authorization)
  \/ \E w \in One, raw_key \in RawKeys : create_apikey_commit(w, raw_key)
  \/ \E w \in One, authorization \in ScenarioHeaders :
       /\ Answered("create_apikey", 200)
       /\ revoke_apikey_auth(w, authorization, resp.data.id)
  \/ \E w \in One : revoke_apikey_query(w)
  \/ \E w \in One : revoke_apikey_commit(w)
  \/ \E w \in One, authorization \in ScenarioHeaders :
       /\ Answered("revoke_apikey", 200)
       /\ list_apikeys_auth(w, authorization)
  \/ \E w \in One : list_apikeys_query(w)
  \/ \E w \in One :
       /\ Answered("list_apikeys", 200)
       /\ Len(resp.data) = 1 /\ resp.data[1].revoked
       /\ request_reset_query(w, "e1")
  \/ \E w \in One, v \in TokenValues : request_reset_commit(w, v)
  \/ \E w \in One : request_reset_send(w, TRUE)
  \/ \E w \in One :
       /\ Answered("request_reset", 200) /\ sent.called
       /\ confirm_reset_query(w, sent.token, "pw2")
  \/ \E w \in One, salt \in Salts : confirm_reset_commit(w, salt)
  \/ \E w \in One :
       Answered("confirm_reset", 200) /\ login_query(w, "u1", "pw1")
  \/ \E w \in One :
       Answered("login", 400) /\ login_query(w, "u1", "pw2")
  \/ \E w \in One, i \in 1..Len(reset_tokens) :
       /\ Answered("login", 200)
       /\ confirm_reset_query(w, reset_tokens[i].token, "pw3")

\* Every request that can be sent or served is, in the end.
SpecScenario == Init /\ [][NextScenario]_vars /\ WF_vars(NextScenario)

\* Several reset tokens of one account, with two requests at a time: u1
\* registers, requests resets and confirms them; the clock stands still.
NextTokens ==
  \/ \E w \in Pair, user_in \in ResetUserIn : register_query(w, user_in)
  \/ \E w \in Pair, salt \in Salts : register_commit(w, salt)
  \/ \E w \in Pair, user_in \in ResetUserIn :
       request_reset_query(w, user_in.email)
  \/ \E w \in Pair, v \in SeveralTokenValues : request_reset_commit(w, v)
  \/ \E w \in Pair, ok \in BOOLEAN : request_reset_send(w, ok)
  \/ \E w \in Pair, v \in SeveralTokenValues, p \in Passwords :
       confirm_reset_query(w, v, p)
  \/ \E w \in Pair, salt \in Salts : confirm_reset_commit(w, salt)

SpecTokens == Init /\ [][NextTokens]_vars

\* Session tokens over the life of an account: u1 registers, logs in, works
\* on its keys and resets its password, one request at a time, while the
\* clock advances to the expiry instant of the session tokens made at the
\* start and to the instant after it.
LifetimeInstants == {JWT_EXPIRE_MINUTES, JWT_EXPIRE_MINUTES + 1}

NextLifetime ==
  \/ \E n \in LifetimeInstants : Tick(n)
  \/ \E w \in One, user_in \in ResetUserIn : register_query(w, user_in)
  \/ \E w \in One, salt \in Salts : register_commit(w, salt)
  \/ \E w \in One, user_in \in ResetUserIn, password \in Passwords :
       login_query(w, user_in.username, password)
  \/ \E w \in One : login_keys(w)
  \/ \E w \in One, authorization \in KeysHeaders : me(w, authorization)
  \/ \E w \in One, authorization \in KeysHeaders :
       create_apikey_auth(w, authorization)
  \/ \E w \in One, raw_key \in FrameRawKeys :
       create_apikey_commit(w, raw_key)
  \/ \E w \in One, authorization \in KeysHeaders :
       list_apikeys_auth(w, authorization)
  \/ \E w \in One : list_apikeys_query(w)
  \/ \E w \in One, authorization \in KeysHeaders, key_id \in FrameKeyIds :
       revoke_apikey_auth(w, authorization, key_id)
  \/ \E w \in One : revoke_apikey_query(w)
  \/ \E w \in One : revoke_apikey_commit(w)
  \/ \E w \in One, user_in \in ResetUserIn :
       request_reset_query(w, user_in.email)
  \/ \E w \in One, v \in TokenValues : request_reset_commit(w, v)
  \/ \E w \in One, ok \in BOOLEAN : request_reset_send(w, ok)
  \/ \E w \in One, v \in TokenValues, p \in Passwords :
       confirm_reset_query(w, v, p)
  \/ \E w \in One, salt \in Salts : confirm_reset_commit(w, salt)

SpecLifetime == Init /\ [][NextLifetime]_vars

\* ------------------------------------------------------------------ claims
InvalidOrExpiredToken(v) ==
  HTTPException("confirm_reset", [token |-> v], 400,
                "Invalid or expired token")

ConfirmInputs == TokenValues \cup {UnknownToken}

\* The step in which worker w commits and answers.
Commits(w, pc) == req[w].pc = pc /\ req'[w].pc = "idle"

\* A step that may be worker w taking a request of operation op: w is free,
\* and the step answers op or leaves w at the given place of op.
Arrives(w, op, pc) ==
  req[w].pc = "idle" /\ (resp'.op = op \/ req'[w].pc = pc)

\* C1: for every reset token, at most one confirm_reset request carrying its
\* value is answered with success, however the requests interleave.
C1_AtMostOneConfirmSucceeds == \A v \in TokenValues : confirmed[v] <= 1

\* C2: no two stored users have the same username, and no two the same
\* email, after any interleaving of registrations.
C2_UsersUnique ==
  \A i, j \in 1..Len(users) :
    i # j => /\ users[i].username # users[j].username
             /\ users[i].email # users[j].email

\* C2 witness: one registration has inserted its user while another, which
\* passed the pre-check before that insert, holds a duplicate of it.
C2_Witness ==
  /\ Len(users) >= 1
  /\ \E w \in Workers :
       /\ req[w].pc = "register_commit"
       /\ \E i \in 1..Len(users) :
            \/ users[i].username = req[w].user_in.username
            \/ users[i].email = req[w].user_in.email

\* C3: a registration that passed the pre-check and finds, when it inserts,
\* that its username or email is stored, creates no user and fails with
\* ConflictError (400, "Username or email already exists").
C3_RaceLoserGetsConflict ==
  [][\A w \in Workers :
       ( /\ Commits(w, "register_commit")
         /\ \E i \in 1..Len(users) :
              \/ users[i].username = req[w].user_in.username
              \/ users[i].email = req[w].user_in.email )
       => /\ users' = users
          /\ resp'.status = 400
          /\ resp'.detail = "Username or email already exists"]_vars

\* C4: the used flag of a token is set and the owner's password hash is
\* replaced in one step: a step that sets a used flag stores, in the same
\* step, the hash of that request's new password for the token's owner, and
\* a step that changes a password hash leaves the request's token used.
C4_ConfirmAtomic ==
  [][ /\ \A i \in 1..Len(reset_tokens) :
           (~reset_tokens[i].used /\ reset_tokens'[i].used)
           => \E w \in Workers :
                /\ Commits(w, "confirm_reset_commit")
                /\ req[w].token.id = i
                /\ verify_password(req[w].new_password,
                     users'[reset_tokens[i].user_id].password_hash)
      /\ \A u \in 1..Len(users) :
           users'[u].password_hash # users[u].password_hash
           => \E w \in Workers :
                /\ Commits(w, "confirm_reset_commit")
                /\ req[w].user_id = u
                /\ reset_tokens[req[w].token.id].user_id = u
                /\ reset_tokens'[req[w].token.id].used
      /\ \A w \in Workers :
           Commits(w, "confirm_reset_commit")
           => /\ reset_tokens'[req[w].token.id].used
              /\ verify_password(req[w].new_password,
                   users'[req[w].user_id].password_hash) ]_vars

\* C4 witness: a confirmation has just succeeded; its token is used and the
\* owner's hash is the hash of a new password.
C4_Witness ==
  /\ resp.op = "confirm_reset" /\ resp.status = 200
  /\ \E i \in 1..Len(reset_tokens) :
       /\ reset_tokens[i].token = resp.arg.token
       /\ reset_tokens[i].used
       /\ verify_password("pw2", users[reset_tokens[i].user_id].password_hash)

\* C5: a used flag never goes back to false, and a confirm_reset request
\* that arrives after a confirmation with the same token value has succeeded
\* fails with InvalidOrExpiredToken, for every new password.
C5_UsedOnce ==
  [][ /\ \A i \in 1..Len(reset_tokens) :
           reset_tokens[i].used => reset_tokens'[i].used
      /\ \A w \in Workers :
           Arrives(w, "confirm_reset", "confirm_reset_commit")
           => \A v \in TokenValues, p \in Passwords :
                (confirmed[v] > 0 /\ confirm_reset_query(w, v, p))
                => /\ resp' = InvalidOrExpiredToken(v)
                   /\ req' = req ]_vars

\* C5 witness: a token value has been confirmed and a request with that
\* value has just been refused.
C5_Witness ==
  /\ resp.op = "confirm_reset" /\ resp.status = 400
  /\ resp.arg.token \in TokenValues
  /\ confirmed[resp.arg.token] > 0

\* C6: a confirm_reset whose token value is unknown, used or past its expiry
\* (also expired and unused) fails with the one InvalidOrExpiredToken answer
\* and changes no row; nothing of the request stays in flight.
C6_RejectsWithoutEffect ==
  [][\A w \in Workers :
       Arrives(w, "confirm_reset", "confirm_reset_commit")
       => \A v \in ConfirmInputs, p \in Passwords :
            ( /\ \A i \in 1..Len(reset_tokens) :
                   reset_tokens[i].token = v
                   => \/ reset_tokens[i].used
                      \/ reset_tokens[i].expires_at.minutes < now
              /\ confirm_reset_query(w, v, p) )
            => /\ resp' = InvalidOrExpiredToken(v)
               /\ users' = users
               /\ reset_tokens' = reset_tokens
               /\ req' = req]_vars

\* C6 witness: a token that is expired and unused has just been refused.
C6_Witness ==
  /\ resp.op = "confirm_reset"
  /\ resp = InvalidOrExpiredToken(resp.arg.token)
  /\ \E i \in 1..Len(reset_tokens) :
       /\ reset_tokens[i].token = resp.arg.token
       /\ ~reset_tokens[i].used
       /\ reset_tokens[i].expires_at.minutes < now

\* C7 as stated: after a successful confirmation, login of the owner with the
\* new password is accepted and login with the old password is refused.
C7_OldFailsNewSucceeds ==
  [][\A w \in Workers, name \in Usernames, new \in Passwords :
       ( /\ Commits(w, "confirm_reset_commit")
         /\ name = users[req[w].user_id].username
         /\ new = req[w].new_password )
       => /\ login_accepts(name, new)'
          /\ \A old \in Passwords :
               verify_password(old, users[req[w].user_id].password_hash)
               => ~login_accepts(name, old)']_vars

\* C7 amended: after a successful confirmation, login of the owner with the
\* new password is accepted, and login with the old password is refused when
\* the old password differs from the new one.
C7_OldFailsUnlessSame ==
  [][\A w \in Workers, name \in Usernames, new \in Passwords :
       ( /\ Commits(w, "confirm_reset_commit")
         /\ name = users[req[w].user_id].username
         /\ new = req[w].new_password )
       => /\ login_accepts(name, new)'
          /\ \A old \in Passwords :
               (old # new /\
                verify_password(old, users[req[w].user_id].password_hash))
               => ~login_accepts(name, old)']_vars

\* C7 witness: a confirmation has just replaced pw1 by pw2.
C7_Witness ==
  /\ resp.op = "confirm_reset" /\ resp.status = 200
  /\ login_accepts("u1", "pw2")
  /\ ~login_accepts("u1", "pw1")

\* C8: a token stored at instant t has expiry t + RESET_TOKEN_EXPIRE_MINUTES
\* and used = false; a confirm_reset on an unused token at instant n passes
\* the gate exactly when n <= expiry and is refused exactly when n > expiry;
\* a request that passed the gate is answered with success.
C8_ExpiryBoundary ==
  [][ /\ Len(reset_tokens') = Len(reset_tokens) + 1
         => /\ reset_tokens'[Len(reset_tokens')].expires_at.minutes
                 = now + RESET_TOKEN_EXPIRE_MINUTES
            /\ ~reset_tokens'[Len(reset_tokens')].used
      /\ \A w \in Workers :
           Arrives(w, "confirm_reset", "confirm_reset_commit")
           => \A i \in 1..Len(reset_tokens), p \in Passwords :
                ( /\ ~reset_tokens[i].used
                  /\ confirm_reset_query(w, reset_tokens[i].token, p) )
                => /\ (req'[w].pc = "confirm_reset_commit")
                        <=> (now <= reset_tokens[i].expires_at.minutes)
                   /\ (resp' = InvalidOrExpiredToken(reset_tokens[i].token))
                        <=> (now > reset_tokens[i].expires_at.minutes)
      /\ \A w \in Workers :
           Commits(w, "confirm_reset_commit") => resp'.status = 200 ]_vars

\* C8 witness: a request passed the gate at the expiry instant of its token,
\* which was stored RESET_TOKEN_EXPIRE_MINUTES earlier.
C8_Witness ==
  \E w \in Workers :
    /\ req[w].pc = "confirm_reset_commit"
    /\ req[w].now_utc.minutes = req[w].token.expires_at.minutes
    /\ req[w].now_utc.minutes = RESET_TOKEN_EXPIRE_MINUTES

\* C9: a request_reset for an unknown email answers the generic
\* acknowledgement, changes nothing and delivers nothing; a request_reset for
\* a known email gets the identical answer; a token is stored exactly by the
\* requests whose email is known.
C9_SameAnswerTokenIffKnown ==
  [][ /\ \A w \in Workers :
           Arrives(w, "request_reset", "request_reset_commit")
           => \A e \in Emails :
                ( /\ \A i \in 1..Len(users) : users[i].email # e
                  /\ request_reset_query(w, e) )
                => /\ resp' = Response("request_reset", [email |-> e], 200,
                                       GenericAck, NoData)
                   /\ sent' = NoCall
                   /\ req' = req
                   /\ users' = users /\ reset_tokens' = reset_tokens
      /\ \A e \in Emails :
           (resp'.op = "request_reset" /\ resp'.arg = [email |-> e])
           => resp' = Response("request_reset", [email |-> e], 200,
                               GenericAck, NoData)
      /\ Len(reset_tokens') > Len(reset_tokens)
         => \E w \in Workers :
              /\ req[w].pc = "request_reset_commit"
              /\ \E i \in 1..Len(users) : users[i].email = req[w].email
      /\ \A w \in Workers :
           (req[w].pc = "request_reset_commit" /\ req'[w] # req[w])
           => Len(reset_tokens') = Len(reset_tokens) + 1 ]_vars

\* C10: request_reset never fails: every answer to it is the generic
\* acknowledgement, whatever the email and whatever the delivery call does.
C10_RequestResetNeverFails ==
  resp.op = "request_reset"
  => resp.status = 200 /\ resp.detail = GenericAck

\* The store: the three tables.
store == <<users, reset_tokens, api_keys>>

\* A header value that carries no bearer token: absent, not of the Bearer
\* scheme, or the Bearer scheme followed by whitespace only.
NoBearerToken(h) ==
  \/ ~h.present
  \/ h.value = <<>>
  \/ lower(h.value[1]) # Word("bearer")
  \/ \A i \in 2..Len(h.value) : h.value[i] = Space

\* C11: a request whose Authorization header is absent, is not of the Bearer
\* scheme, or is the Bearer scheme followed by whitespace only, is refused
\* with Unauthenticated (401), as a request with an invalid token is, and
\* with nothing else.
C11_NoTokenIsUnauthenticated ==
  [][\A w \in Workers :
       Arrives(w, "me", "me")
       => \A h \in SessionHeaders :
            (NoBearerToken(h) /\ me(w, h))
            => /\ resp'.status = 401
               /\ resp'.status
                    = Refused("me", get_current_user(BearerHeader(Garbage))).status
     ]_vars

\* C12: a session token made for subject s at instant t is signed with the
\* configured secret and expires at t + JWT_EXPIRE_MINUTES; a token login has
\* returned decodes to its subject at every instant before its expiry and to
\* None at every instant after it; decoded with another secret it is None;
\* a token that is no JWS, or is forged, decodes to None.  (What a token
\* decodes to depends on the clock alone, so it is examined in the steps
\* that advance the clock or return a token.)
C12_SessionTokenValidity ==
  [][ /\ \A w \in Workers, s \in Usernames :
           ( /\ Arrives(w, "login", "login_keys")
             /\ req'[w].pc = "login_keys"
             /\ req'[w].user.username = s )
           => /\ req'[w].token =
                   jwt_encode([sub |-> s, exp |-> now + JWT_EXPIRE_MINUTES],
                              JWT_SECRET, JWT_ALGO)
              /\ decode_access_token(req'[w].token) = Some(s)
      /\ (now' # now \/ issued' # issued)
         => /\ \A t \in issued', s \in Usernames :
                 s = users'[t.user_id].username
                 => /\ t.token.payload.sub = s
                    /\ now' < t.token.payload.exp
                         => (decode_access_token(t.token))' = Some(s)
                    /\ now' > t.token.payload.exp
                         => (decode_access_token(t.token))' = None
                    /\ \A k \in Secrets \ {JWT_SECRET} :
                         (decode_with(t.token, k))' = None
            /\ \A f \in ForgedTokens :
                 (decode_access_token(f))' = None ]_vars

\* C12 witness: a token login returned has expired and a request carrying it
\* has just been refused as an invalid token.
C12_Witness ==
  /\ resp.op = "me" /\ resp.status = 401 /\ resp.detail = "Invalid token"
  /\ \E t \in issued :
       /\ now > t.token.payload.exp
       /\ decode_access_token(t.token) = None

\* The outcome of get_current_user that is the user with that id.
Resolved(user_id) ==
  [raised |-> "none", status |-> 200, detail |-> "", user |-> users[user_id]]

\* C13: in every reachable state, a session token that a successful login
\* of user u has returned resolves, through get_current_user, to u and no
\* other user while the token has not expired; a validly signed, unexpired
\* token whose subject is no stored username is refused with Unauthenticated
\* (401).
C13_TokenResolvesToItsUser ==
  /\ \A t \in issued :
       /\ t.user_id \in 1..Len(users)
       /\ users[t.user_id].id = t.user_id
       /\ now <= t.token.payload.exp
            => get_current_user(BearerHeader(t.token)) = Resolved(t.user_id)
  /\ \A p \in SessionPayloads :
       ( /\ "sub" \in DOMAIN p
         /\ now <= p.exp
         /\ \A i \in 1..Len(users) : users[i].username # p.sub )
       => LET outcome ==
                get_current_user(
                  BearerHeader(jwt_encode(p, JWT_SECRET, JWT_ALGO)))
          IN outcome.raised = "HTTPException" /\ outcome.status = 401
  /\ (resp.op = "me" /\ resp.status = 200)
       => \E i \in 1..Len(users) : resp.data = UserOut(users[i])

\* C13 witness: with two users stored, a token that login returned has just
\* resolved to its user at the token's expiry instant, after a login of the
\* other user.
C13_Witness ==
  /\ resp.op = "me" /\ resp.status = 200
  /\ Len(users) = 2
  /\ \E t, o \in issued :
       /\ o.user_id # t.user_id
       /\ resp.data.id = t.user_id
       /\ now = t.token.payload.exp

\* The user with that username is stored and the password verifies against
\* the hash stored for it.
StoredAndVerifies(username, password) ==
  \E i \in 1..Len(users) :
    /\ users[i].username = username
    /\ verify_password(password, users[i].password_hash)

\* C14: a login goes on to success exactly when the username is stored and
\* the password verifies against the stored hash; otherwise it is refused
\* with the one InvalidCredentials answer (400), whether the user is absent
\* or the password is wrong; a login that went on is answered with success;
\* no step of login changes the store.
C14_LoginIffCredentials ==
  [][ /\ \A w \in Workers :
           Arrives(w, "login", "login_keys")
           => \A name \in Usernames, p \in Passwords :
                login_query(w, name, p)
                => /\ (req'[w].pc = "login_keys")
                        <=> StoredAndVerifies(name, p)
                   /\ ~StoredAndVerifies(name, p)
                        => /\ resp' = HTTPException("login",
                                  [username |-> name], 400,
                                  "Invalid credentials")
                           /\ req' = req
                   /\ store' = store
      /\ \A w \in Workers :
           Commits(w, "login_keys")
           => /\ resp'.op = "login" /\ resp'.status = 200
              /\ resp'.data.user.username = req[w].user.username
              /\ store' = store ]_vars

\* C14 witness: a login with a stored username and a wrong password has just
\* been refused, and a login of an absent user is refused the same way.
C14_Witness ==
  /\ resp.op = "login" /\ resp.status = 400
  /\ \E i \in 1..Len(users) :
       /\ users[i].username = resp.arg.username
       /\ ~verify_password("pw2", users[i].password_hash)
  /\ \E name \in Usernames : \A i \in 1..Len(users) : users[i].username # name

\* The ids of the keys that a user owns and that are not revoked.
ActiveKeyIds(user_id) ==
  {api_keys[i].id : i \in {j \in 1..Len(api_keys) :
                              /\ api_keys[j].user_id = user_id
                              /\ ~api_keys[j].revoked}}

\* C15: the key ids a successful login of user u returns are exactly the ids
\* of the keys that u owns and that are not revoked when the answer is made,
\* each once: no revoked key, no key of another user, every active key of u.
C15_LoginListsActiveKeys ==
  [][\A w \in Workers :
       Commits(w, "login_keys")
       => LET listed == resp'.data.api_keys IN
          /\ resp'.status = 200
          /\ resp'.data.user.id = req[w].user.id
          /\ {listed[i].str : i \in 1..Len(listed)}
               = ActiveKeyIds(req[w].user.id)
          /\ Len(listed) = Cardinality(ActiveKeyIds(req[w].user.id)) ]_vars

\* C15 witness: a login has just listed the one key of its user while a key
\* of another user is stored.
C15_Witness ==
  /\ resp.op = "login" /\ resp.status = 200
  /\ Len(resp.data.api_keys) = 1
  /\ \E i, j \in 1..Len(api_keys) :
       /\ api_keys[i].id = resp.data.api_keys[1].str
       /\ api_keys[i].user_id = resp.data.user.id
       /\ api_keys[j].user_id # resp.data.user.id

\* C16: a registration that arrives when its username is stored, or when its
\* email is stored under another username, fails with ConflictError (400,
\* "Username or email already exists") and creates or changes no user; one
\* that arrives when both are new passes the pre-check, and when both are new
\* as it inserts, it creates exactly one user, with its fields, and succeeds.
C16_RegisterConflictOrCreate ==
  [][ /\ \A w \in Workers :
           Arrives(w, "register", "register_commit")
           => \A user_in \in UserIn :
                register_query(w, user_in)
                => IF \E i \in 1..Len(users) :
                        \/ users[i].username = user_in.username
                        \/ users[i].email = user_in.email
                   THEN /\ resp' = HTTPException("register",
                               [username |-> user_in.username,
                                email |-> user_in.email],
                               400, "Username or email already exists")
                        /\ users' = users
                        /\ req' = req
                   ELSE /\ req'[w].pc = "register_commit"
                        /\ req'[w].user_in = user_in
                        /\ users' = users
      /\ \A w \in Workers :
           ( /\ Commits(w, "register_commit")
             /\ \A i \in 1..Len(users) :
                  /\ users[i].username # req[w].user_in.username
                  /\ users[i].email # req[w].user_in.email )
           => /\ Len(users') = Len(users) + 1
              /\ \A i \in 1..Len(users) : users'[i] = users[i]
              /\ users'[Len(users')].username = req[w].user_in.username
              /\ users'[Len(users')].email = req[w].user_in.email
              /\ resp'.status = 200
              /\ resp'.data = UserOut(users'[Len(users')]) ]_vars

\* C16 witness: a registration with a new username and an email that is
\* stored under another username has just been refused with ConflictError.
C16_Witness ==
  /\ resp.op = "register" /\ resp.status = 400
  /\ Len(users) = 1
  /\ users[1].email = resp.arg.email
  /\ users[1].username # resp.arg.username

\* C17: an API-key issuance for user u that returns creates exactly one
\* APIKey and changes no other: its owner is u, the user of the presented
\* session token, its revoked flag is false, its key hash is the SHA-256
\* hash of the raw value returned, and the id returned is its id.
C17_IssueCreatesOneKey ==
  [][ /\ \A w \in Workers :
           Arrives(w, "create_apikey", "create_apikey_commit")
           => \A t \in issued :
                create_apikey_auth(w, BearerHeader(t.token))
                => req'[w].user_id = t.user_id
      /\ \A w \in Workers :
           (Commits(w, "create_apikey_commit") /\ resp'.status = 200)
           => LET key == api_keys'[Len(api_keys')] IN
              /\ Len(api_keys') = Len(api_keys) + 1
              /\ \A i \in 1..Len(api_keys) :
                   api_keys'[i] = api_keys[i] /\ api_keys[i].id # key.id
              /\ key.user_id = req[w].user_id
              /\ ~key.revoked
              /\ key.key_hash = sha256(resp'.data.raw_key)
              /\ resp'.data.id = key.id ]_vars

\* C17 witness: the second user has just been issued the second key.
C17_Witness ==
  /\ resp.op = "create_apikey" /\ resp.status = 200
  /\ Len(api_keys) = 2
  /\ resp.data.id = 2
  /\ api_keys[2].user_id = 2
  /\ api_keys[1].user_id = 1

\* The fields of a user's public profile.
ProfileFields == {"id", "name", "email", "address", "username"}

\* C18: a raw key is returned by exactly one request, the issuance that
\* stored its hash; no stored key hash is a raw key; the results of listing,
\* login and the current-user lookup carry ids, timestamps, flags, the
\* profile and the session token, and neither a raw key nor a key hash.
C18_RawKeyShownOnce ==
  /\ \A k \in RawKeys :
       /\ shown[k] <= 1
       /\ shown[k] = 1
            <=> \E i \in 1..Len(api_keys) : api_keys[i].key_hash = sha256(k)
  /\ \A i \in 1..Len(api_keys) :
       /\ api_keys[i].key_hash \notin RawKeys
       /\ DOMAIN api_keys[i]
            = {"id", "key_hash", "user_id", "created_at", "revoked"}
  /\ (resp.op = "create_apikey" /\ resp.status = 200)
       => /\ resp.data.raw_key \in RawKeys
          /\ api_keys[resp.data.id].key_hash = sha256(resp.data.raw_key)
  /\ (resp.op = "list_apikeys" /\ resp.status = 200)
       => \A i \in 1..Len(resp.data) :
            /\ DOMAIN resp.data[i] = {"id", "created_at", "revoked"}
            /\ resp.data[i].id \in 1..Len(api_keys)
            /\ resp.data[i].revoked \in BOOLEAN
            /\ DOMAIN resp.data[i].created_at = {"minutes", "tzinfo"}
  /\ (resp.op = "login" /\ resp.status = 200)
       => /\ DOMAIN resp.data
               = {"access_token", "token_type", "user", "api_keys"}
          /\ DOMAIN resp.data.user = ProfileFields
          /\ DOMAIN resp.data.access_token.payload = {"sub", "exp"}
          /\ \A i \in 1..Len(resp.data.api_keys) :
               /\ DOMAIN resp.data.api_keys[i] = {"str"}
               /\ resp.data.api_keys[i].str \in 1..Len(api_keys)
  /\ (resp.op = "me" /\ resp.status = 200)
       => DOMAIN resp.data = ProfileFields
  /\ (resp.op \in {"list_apikeys", "login", "me"} /\ resp.status # 200)
       => resp.data = NoData

\* C18 witness: a listing has just shown two keys whose raw values were
\* each returned once.
C18_Witness ==
  /\ resp.op = "list_apikeys" /\ resp.status = 200
  /\ Len(resp.data) = 2
  /\ \A k \in RawKeys : shown[k] = 1

\* C19: no two stored API keys have the same key hash, after any
\* interleaving of issuances; an issuance whose raw value hashes to a stored
\* key hash stores no key.
C19_KeyHashesUnique ==
  \A i, j \in 1..Len(api_keys) :
    i # j => api_keys[i].key_hash # api_keys[j].key_hash

\* C19 witness: an issuance that drew the raw value of the stored key has
\* just been rejected, while another issuance is in flight.
C19_Witness ==
  /\ resp.op = "create_apikey" /\ resp.status = 500
  /\ Len(api_keys) = 1
  /\ \E w \in Pair : req[w].pc = "create_apikey_commit"
  /\ \E k \in RawKeys : shown[k] = 1

\* C20: a revoked flag that is true stays true: no step of any operation
\* removes a revoked key or sets its flag back to false.
C20_RevokedStaysRevoked ==
  [][\A i \in 1..Len(api_keys) :
       api_keys[i].revoked
       => /\ i <= Len(api_keys')
          /\ api_keys'[i].id = api_keys[i].id
          /\ api_keys'[i].revoked]_vars

\* C20 witness: with a revoked key stored, a password reset has just
\* succeeded.
C20_Witness ==
  /\ resp.op = "confirm_reset" /\ resp.status = 200
  /\ \E i \in 1..Len(api_keys) : api_keys[i].revoked

\* C21: a revocation whose id names no key, or names a key of another user,
\* is answered 404 "API key not found" and changes nothing: the targeted
\* key's revoked flag and the rest of the store stay as they were, and the
\* request ends there.  The user of a revocation is the user of a session
\* token, and a revoked flag is changed only by the commit of a revocation
\* made by the key's owner, so no user revokes another user's key.
C21_RevokeUnknownOrForeignKey ==
  [][/\ \A w \in One :
          (req[w].pc = "idle" /\ req'[w].pc = "revoke_apikey_query")
          => \E t \in issued : t.user_id = req'[w].user_id
     /\ \A w \in One :
          ( /\ req[w].pc = "revoke_apikey_query"
            /\ req'[w] # req[w]
            /\ \A i \in 1..Len(api_keys) :
                 api_keys[i].id = req[w].key_id
                 => api_keys[i].user_id # req[w].user_id )
          => /\ resp' = HTTPException("revoke_apikey",
                                      [key_id |-> req[w].key_id], 404,
                                      "API key not found")
             /\ store' = store
             /\ req'[w] = Idle
     /\ \A i \in 1..Len(api_keys) :
          (i <= Len(api_keys') /\ api_keys'[i].revoked # api_keys[i].revoked)
          => \E w \in One :
               /\ req[w].pc = "revoke_apikey_commit"
               /\ req[w].key_id = api_keys[i].id
               /\ req[w].user_id = api_keys[i].user_id]_vars

\* C21 witness: a revocation has just been answered 404 for the id of a
\* stored key, which is therefore another user's, and that key is still
\* not revoked.
C21_Witness ==
  /\ resp.op = "revoke_apikey" /\ resp.status = 404
  /\ \E i \in 1..Len(api_keys) :
       api_keys[i].id = resp.arg.key_id /\ ~api_keys[i].revoked

\* C22: revoking a key of the caller that is already revoked succeeds
\* again: the lookup finds the key, the commit answers 200 "API key
\* revoked", the key remains revoked, and the store after the second
\* revocation is the store after the first.
C22_RevokeIsIdempotent ==
  [][\A w \in Pair :
       /\ ( /\ req[w].pc = "revoke_apikey_query"
            /\ req'[w] # req[w]
            /\ \E i \in 1..Len(api_keys) :
                 /\ api_keys[i].id = req[w].key_id
                 /\ api_keys[i].user_id = req[w].user_id
                 /\ api_keys[i].revoked )
          => /\ req'[w].pc = "revoke_apikey_commit"
             /\ req'[w].key_id = req[w].key_id
             /\ store' = store
       /\ ( /\ Commits(w, "revoke_apikey_commit")
            /\ api_keys[req[w].key_id].revoked )
          => /\ resp'.op = "revoke_apikey"
             /\ resp'.status = 200
             /\ resp'.detail = "API key revoked"
             /\ api_keys'[req[w].key_id].revoked
             /\ store' = store]_vars

\* C22 witness: a revocation has just succeeded for a key that its session
\* had read as already revoked.
C22_Witness ==
  /\ resp.op = "revoke_apikey" /\ resp.status = 200
  /\ resp.arg.revoked
  /\ api_keys[resp.arg.key_id].revoked

\* C23: the list answered to an authenticated user is exactly the keys that
\* user owns, revoked and active alike, each once, each with its id, its
\* creation time and its revoked flag as stored when the answer is made, and
\* with nothing else; no key of another user is in it.  A key is therefore
\* listed with revoked = true once its revocation has succeeded (the flag
\* stays true, C20).  Listing changes nothing.
C23_ListIsTheUsersKeys ==
  [][\A w \in One :
       Commits(w, "list_apikeys_query")
       => LET own == {i \in 1..Len(api_keys) :
                        api_keys[i].user_id = req[w].user_id}
              listed == resp'.data
          IN /\ resp'.op = "list_apikeys" /\ resp'.status = 200
             /\ Len(listed) = Cardinality(own)
             /\ \A i \in own :
                  \E j \in 1..Len(listed) :
                    listed[j] = [id |-> api_keys[i].id,
                                 created_at |-> api_keys[i].created_at,
                                 revoked |-> api_keys[i].revoked]
             /\ \A j \in 1..Len(listed) :
                  \E i \in own : listed[j].id = api_keys[i].id
             /\ store' = store]_vars

\* C23 witness: a list has just been answered with one key, shown revoked,
\* while a key of another user is stored.
C23_Witness ==
  /\ resp.op = "list_apikeys" /\ resp.status = 200
  /\ Len(resp.data) = 1
  /\ resp.data[1].revoked
  /\ \E i \in 1..Len(api_keys) : api_keys[i].id # resp.data[1].id

\* Every session is closed: no request is in flight.
AllCompleted == \A w \in Pair : req[w].pc = "idle"

\* C24: with issuances and revocations of one user interleaved in any order,
\* no mutation is lost.  No step removes a stored key, changes its id, hash
\* or owner, or sets a revoked flag back; an issuance that answers 200 has
\* stored the key it names; a revocation that answers 200 leaves its key
\* revoked.  So every key whose issuance succeeded is stored and every key
\* whose revocation succeeded is revoked in every later state, and when all
\* requests have completed every raw key that was shown is stored.
C24_NoLostKeyMutation ==
  [][/\ \A i \in 1..Len(api_keys) :
          /\ i <= Len(api_keys')
          /\ api_keys'[i].id = api_keys[i].id
          /\ api_keys'[i].key_hash = api_keys[i].key_hash
          /\ api_keys'[i].user_id = api_keys[i].user_id
          /\ api_keys[i].revoked => api_keys'[i].revoked
     /\ \A w \in Pair :
          (Commits(w, "create_apikey_commit") /\ resp'.status = 200)
          => \E i \in 1..Len(api_keys') :
               /\ api_keys'[i].id = resp'.data.id
               /\ api_keys'[i].key_hash = hash_api_key(resp'.data.raw_key)
               /\ api_keys'[i].user_id = req[w].user_id
     /\ \A w \in Pair :
          (Commits(w, "revoke_apikey_commit") /\ resp'.status = 200)
          => /\ api_keys'[req[w].key_id].id = req[w].key_id
             /\ api_keys'[req[w].key_id].revoked
     /\ AllCompleted'
        => \A k \in RawKeys :
             shown'[k] > 0
             => \E i \in 1..Len(api_keys') :
                  api_keys'[i].key_hash = hash_api_key(k)]_vars

\* C24 witness: an issuance has just succeeded while a revocation that has
\* found its key is still to commit, with a key already revoked in the
\* store.
C24_Witness ==
  /\ resp.op = "create_apikey" /\ resp.status = 200
  /\ \E w \in Pair : req[w].pc = "revoke_apikey_commit"
  /\ \E i \in 1..Len(api_keys) : api_keys[i].revoked
  /\ \E i \in 1..Len(api_keys) : api_keys[i].id = resp.data.id

\* C25: a registration that succeeds with password p stores a hash that
\* verify_password accepts with p and rejects, without raising, with every
\* other string.
C25_StoredHashVerifiesItsPassword ==
  [][\A w \in One :
       (Commits(w, "register_commit") /\ resp'.status = 200)
       => LET stored == users'[Len(users')].password_hash
              p == req[w].user_in.password
          IN /\ verify_password_call(p, stored)
                  = [raised |-> "none", value |-> TRUE]
             /\ \A q \in Plaintexts \ {p} :
                  verify_password_call(q, stored)
                    = [raised |-> "none", value |-> FALSE]]_vars

\* C25 witness: verify_password has just been called with the password of a
\* registration and the hash it stored, and with another hash stored for
\* another password.
C25_Witness ==
  /\ resp.op = "verify_password"
  /\ resp.data = [value |-> TRUE]
  /\ \E i \in 1..Len(users) : users[i].password_hash = resp.arg.hashed
  /\ \E i \in 1..Len(users) :
       ~verify_password(resp.arg.password, users[i].password_hash)

\* C26: verify_password returns false and raises nothing for every hash
\* that is not an encoded hash of the configured scheme, whatever the
\* plaintext.
C26_MalformedHashVerifiesFalse ==
  (resp.op = "verify_password" /\ resp.arg.hashed \in MalformedHashes)
  => /\ resp.detail = "none"
     /\ resp.data = [value |-> FALSE]

\* The users whose id is the given one.
OwnersOf(user_id) == {i \in 1..Len(users) : users[i].id = user_id}

\* C27: every stored API key and every stored reset token names exactly one
\* stored user as its owner, so the owner query of a confirmation always
\* finds its user: no confirmation is answered "User not found".
C27_OwnersExist ==
  /\ \A i \in 1..Len(api_keys) :
       Cardinality(OwnersOf(api_keys[i].user_id)) = 1
  /\ \A i \in 1..Len(reset_tokens) :
       Cardinality(OwnersOf(reset_tokens[i].user_id)) = 1
  /\ ~(resp.op = "confirm_reset" /\ resp.detail = "User not found")

\* C27 witness: a confirmation has just succeeded, with an API key and the
\* used token stored, each owned by a stored user, and two users stored.
C27_Witness ==
  /\ resp.op = "confirm_reset" /\ resp.status = 200
  /\ Len(users) = 2
  /\ Len(api_keys) > 0
  /\ \E i \in 1..Len(reset_tokens) :
       reset_tokens[i].used /\ OwnersOf(reset_tokens[i].user_id) # {}

\* C29: a user's password hash changes only in the commit of a confirmation
\* that succeeds with a stored token owned by that user, and the new hash is
\* the hash of that confirmation's new password.  Every other step, of
\* every operation (a registration of another user, a registration that
\* fails, login, me, the API-key operations, a reset request, a
\* confirmation that fails), leaves every hash as it was, and a
\* confirmation that succeeds changes the hash of no other user.
C29_HashChangesOnlyOnOwnConfirm ==
  [][\A i \in 1..Len(users) :
       /\ i <= Len(users')
       /\ users'[i].password_hash # users[i].password_hash
          => \E w \in One :
               /\ Commits(w, "confirm_reset_commit")
               /\ resp'.op = "confirm_reset" /\ resp'.status = 200
               /\ \E t \in 1..Len(reset_tokens) :
                    /\ reset_tokens[t].token = req[w].token.token
                    /\ reset_tokens[t].user_id = users[i].id
               /\ verify_password(req[w].new_password,
                                  users'[i].password_hash)]_vars

\* C29 witness: a confirmation has just succeeded for a token of one user,
\* whose hash no longer verifies the password it registered with, while the
\* other user's hash still verifies the password that user registered with.
C29_Witness ==
  /\ resp.op = "confirm_reset" /\ resp.status = 200
  /\ \E o, j \in 1..Len(users) :
       /\ o # j
       /\ \E t \in 1..Len(reset_tokens) :
            /\ reset_tokens[t].token = resp.arg.token
            /\ reset_tokens[t].user_id = users[o].id
       /\ \E u \in SessionUserIn :
            /\ u.username = users[o].username
            /\ ~verify_password(u.password, users[o].password_hash)
       /\ \E u \in SessionUserIn :
            /\ u.username = users[j].username
            /\ verify_password(u.password, users[j].password_hash)

\* C30: no operation deletes or deactivates a user, and none removes an API
\* key or a reset token: every stored user is stored in every later state
\* with is_active = true and the same id, username and email, every user is
\* active when it is created, and every stored key and token stays stored
\* under its id, value and owner.
C30_NothingIsDeleted ==
  [][/\ \A i \in 1..Len(users) :
          /\ i <= Len(users')
          /\ users'[i].id = users[i].id
          /\ users'[i].username = users[i].username
          /\ users'[i].email = users[i].email
     /\ \A i \in 1..Len(users') : users'[i].is_active
     /\ \A i \in 1..Len(api_keys) :
          /\ i <= Len(api_keys')
          /\ api_keys'[i].id = api_keys[i].id
          /\ api_keys'[i].key_hash = api_keys[i].key_hash
          /\ api_keys'[i].user_id = api_keys[i].user_id
     /\ \A i \in 1..Len(reset_tokens) :
          /\ i <= Len(reset_tokens')
          /\ reset_tokens'[i].id = reset_tokens[i].id
          /\ reset_tokens'[i].token = reset_tokens[i].token
          /\ reset_tokens'[i].user_id = reset_tokens[i].user_id]_vars

\* C30 witness: after a password reset and a revocation, the second user
\* has just registered: both users are stored and active, with the revoked
\* key and the used token.
C30_Witness ==
  /\ resp.op = "register" /\ resp.status = 200
  /\ Len(users) = 2
  /\ \A i \in 1..Len(users) : users[i].is_active
  /\ \E i \in 1..Len(api_keys) : api_keys[i].revoked
  /\ \E i \in 1..Len(reset_tokens) : reset_tokens[i].used

\* The scenario has run to its end: the second confirmation with R has just
\* been refused, after the reset to pw2 and the revocation of K.
C28_ScenarioCompleted ==
  /\ resp.op = "confirm_reset" /\ resp.status = 400
  /\ resp.detail = "Invalid or expired token"
  /\ \E i \in 1..Len(reset_tokens) :
       reset_tokens[i].token = resp.arg.token /\ reset_tokens[i].used
  /\ Len(api_keys) = 1 /\ api_keys[1].revoked
  /\ Len(users) = 1 /\ users[1].username = "u1"
  /\ verify_password("pw2", users[1].password_hash)
  /\ ~verify_password("pw1", users[1].password_hash)
  /\ ~verify_password("pw3", users[1].password_hash)
  /\ Cardinality(issued) >= 1

\* C28: the end-to-end scenario holds as one trace from the empty store.
\* The client sends each request only when the one before it was answered
\* as the scenario says (register 200; login with pw1 200 with T; me with T
\* 200 and u1; issue 200 with K; revoke K 200; list 200 with K revoked;
\* request-reset 200 with R delivered; confirm R with pw2 200; login with pw1
\* 400; login with pw2 200; confirm R with pw3 400), so the scenario holds
\* exactly when every run of the client reaches its end, whatever the
\* service draws and whenever the clock advances.
C28_ScenarioHolds == <>C28_ScenarioCompleted

\* C31: no partially written entity is ever visible.  In every reachable
\* state, the states in which a request has stopped between two of its
\* steps included, every stored user has all its columns and a complete
\* hash of the configured scheme, every stored API key has the hash of a raw
\* key and a stored owner, and every stored reset token has a token value, a
\* stored owner and an expiry instant.
C31_NoPartialEntity ==
  /\ \A i \in 1..Len(users) :
       /\ DOMAIN users[i] = {"id", "name", "email", "address", "username",
                             "password_hash", "is_active"}
       /\ DOMAIN users[i].password_hash = {"scheme", "salt", "digest"}
       /\ users[i].password_hash.scheme = "pbkdf2_sha256"
       /\ \E p \in Passwords : verify_password(p, users[i].password_hash)
  /\ \A i \in 1..Len(api_keys) :
       /\ DOMAIN api_keys[i]
            = {"id", "key_hash", "user_id", "created_at", "revoked"}
       /\ \E k \in RawKeys : api_keys[i].key_hash = hash_api_key(k)
       /\ OwnersOf(api_keys[i].user_id) # {}
  /\ \A i \in 1..Len(reset_tokens) :
       /\ DOMAIN reset_tokens[i]
            = {"id", "token", "user_id", "expires_at", "used"}
       /\ reset_tokens[i].token \in TokenValues
       /\ OwnersOf(reset_tokens[i].user_id) # {}
       /\ reset_tokens[i].expires_at.minutes \in Nat

\* C31 witness: a confirmation has stopped between its query and its
\* commit, with users, an API key and a reset token stored.
C31_Witness ==
  /\ \E w \in One : req[w].pc = "confirm_reset_commit"
  /\ Len(users) = 2
  /\ Len(api_keys) > 0
  /\ Len(reset_tokens) > 0

\* The token with its expiry as the same clock reading tagged UTC.
TaggedUTC(token) ==
  [token EXCEPT !.expires_at = utc(token.expires_at.minutes)]

\* C32: a stored expiry without timezone is treated as the same clock
\* reading in UTC.  For every stored token and every current time the gate
\* decides as it decides for the token with that reading tagged UTC; a
\* confirmation that has passed the gate, and one that has just been refused
\* for a stored token, was decided as for the tagged token.
C32_NaiveExpiryIsUTC ==
  /\ \A i \in 1..Len(reset_tokens) :
       reset_tokens[i].expires_at.tzinfo = "none"
       => \A n \in Instants :
            Rejected(reset_tokens[i], utc(n))
              <=> Rejected(TaggedUTC(reset_tokens[i]), utc(n))
  /\ \A w \in Pair :
       req[w].pc = "confirm_reset_commit"
       => ~Rejected(TaggedUTC(req[w].token), req[w].now_utc)
  /\ (resp.op = "confirm_reset" /\ resp.status = 400)
     => \A i \in 1..Len(reset_tokens) :
          reset_tokens[i].token = resp.arg.token
          => Rejected(TaggedUTC(reset_tokens[i]), utc(now))

\* C32 witness: a confirmation has just been refused for a stored, unused
\* token whose expiry, stored without timezone, is before the current time.
C32_Witness ==
  /\ resp.op = "confirm_reset" /\ resp.status = 400
  /\ \E i \in 1..Len(reset_tokens) :
       /\ reset_tokens[i].token = resp.arg.token
       /\ ~reset_tokens[i].used
       /\ reset_tokens[i].expires_at.tzinfo = "none"
       /\ reset_tokens[i].expires_at.minutes < now

\* C33: a user may hold several outstanding reset tokens.  A reset request
\* that stores its token adds one unused token of its user and changes no
\* stored token; the commit of a confirmation marks the presented token used
\* and changes no other token; a confirmation that arrives with any stored
\* token that is unused and not expired passes the gate, whatever happened
\* to the user's other tokens, and a confirmation that passed the gate is
\* answered with success.
C33_TokensAreIndependent ==
  [][\A w \in Pair :
       /\ (req[w].pc = "request_reset_commit"
           /\ req'[w].pc = "request_reset_send")
          => /\ Len(reset_tokens') = Len(reset_tokens) + 1
             /\ \A i \in 1..Len(reset_tokens) :
                  reset_tokens'[i] = reset_tokens[i]
             /\ reset_tokens'[Len(reset_tokens')].user_id = req[w].user.id
             /\ reset_tokens'[Len(reset_tokens')].token = req'[w].token_value
             /\ ~reset_tokens'[Len(reset_tokens')].used
       /\ Commits(w, "confirm_reset_commit")
          => /\ Len(reset_tokens') = Len(reset_tokens)
             /\ \A i \in 1..Len(reset_tokens) :
                  IF reset_tokens[i].id = req[w].token.id
                  THEN reset_tokens'[i]
                         = [reset_tokens[i] EXCEPT !.used = TRUE]
                  ELSE reset_tokens'[i] = reset_tokens[i]
             /\ resp'.status = 200
       /\ Arrives(w, "confirm_reset", "confirm_reset_commit")
          => \A i \in 1..Len(reset_tokens), p \in Passwords :
               ( /\ ~reset_tokens[i].used
                 /\ ~Before(as_utc(reset_tokens[i].expires_at), utc(now))
                 /\ confirm_reset_query(w, reset_tokens[i].token, p) )
               => req'[w].pc = "confirm_reset_commit"]_vars

\* C33 witness: a confirmation has just succeeded with one token of a user
\* after a confirmation with another token of that user had succeeded: both
\* tokens are used and each was confirmed once.
C33_Witness ==
  /\ resp.op = "confirm_reset" /\ resp.status = 200
  /\ \E i, j \in 1..Len(reset_tokens) :
       /\ i # j
       /\ reset_tokens[i].user_id = reset_tokens[j].user_id
       /\ reset_tokens[i].used /\ reset_tokens[j].used
       /\ reset_tokens[i].token = resp.arg.token
       /\ confirmed[reset_tokens[i].token] = 1
       /\ confirmed[reset_tokens[j].token] = 1

\* C34: no lifecycle operation invalidates an issued session token.  In
\* every reachable state, whatever password resets have succeeded and
\* whatever keys have been revoked since, every session token that login
\* has returned resolves through get_current_user to its user as long as
\* the token's own expiry has not passed.
C34_SessionTokenOutlivesLifecycle ==
  /\ \A t \in issued :
       now <= t.token.payload.exp
       => get_current_user(BearerHeader(t.token)) = Resolved(t.user_id)
  /\ (resp.op = "me" /\ resp.status = 200)
       => \E t \in issued :
            now <= t.token.payload.exp /\ resp.data = UserOut(users[t.user_id])

\* C34 witness: me has just answered 200 at the expiry instant of the only
\* session tokens issued, which were issued at the start; the used reset
\* token was requested, and the revoked key was created, at this later
\* instant, so the reset and the revocation came after the token was issued.
C34_Witness ==
  /\ resp.op = "me" /\ resp.status = 200
  /\ now = JWT_EXPIRE_MINUTES
  /\ issued # {}
  /\ \A t \in issued : t.token.payload.exp = now
  /\ \E i \in 1..Len(reset_tokens) :
       reset_tokens[i].used /\ reset_tokens[i].expires_at.minutes > now
  /\ \E i \in 1..Len(api_keys) :
       api_keys[i].revoked /\ api_keys[i].created_at.minutes = now
  /\ ~verify_password("pw1", users[1].password_hash)

\* C35: the delivery collaborator is called only by a reset request whose
\* token is already committed, with the email of the token's stored owner
\* and exactly the stored token value; the call, whether it succeeds or
\* fails, leaves the token stored; and a stored token value stays stored, so
\* the token query of every later confirmation finds every value that was
\* delivered.
C35_DeliveredTokenIsStored ==
  [][/\ \A i \in 1..Len(reset_tokens) :
          /\ i <= Len(reset_tokens')
          /\ reset_tokens'[i].token = reset_tokens[i].token
     /\ sent'.called
        => /\ \E w \in Pair : req[w].pc = "request_reset_send"
           /\ \E i \in 1..Len(reset_tokens) :
                /\ reset_tokens[i].token = sent'.token
                /\ users[reset_tokens[i].user_id].email = sent'.email
           /\ reset_tokens' = reset_tokens
           /\ Len(SelectSeq(reset_tokens', LAMBDA t : t.token = sent'.token))
                = 1]_vars

\* C35 witness: a delivery has just failed, the request is answered 500, and
\* the token it was to deliver is stored.
C35_Witness ==
  /\ sent.called /\ ~sent.ok
  /\ resp.op = "request_reset" /\ resp.status = 500
  /\ \E i \in 1..Len(reset_tokens) :
       reset_tokens[i].token = sent.token /\ ~reset_tokens[i].used

\* The other confirmations that have passed the gate with another token of
\* the same user and another new password, and are still to commit.
ConcurrentConfirms(w) ==
  {v \in Pair \ {w} :
     /\ req[v].pc = "confirm_reset_commit"
     /\ req[v].user_id = req[w].user_id
     /\ req[v].token.id # req[w].token.id
     /\ req[v].new_password # req[w].new_password}

\* C36: two confirmations with two different valid tokens of one user and
\* two different new passwords, running concurrently, both succeed.  The
\* commit of each is answered 200, marks its own token used, leaves the
\* other token as it was, and stores a complete hash of its own new
\* password; the commit of the first leaves the second free to commit in
\* the same way.  So after both, both tokens are used and the user's hash is
\* the hash of the password that committed last, one of the two submitted:
\* never a mix, never the hash that was stored before.
C36_ConcurrentConfirmsBothSucceed ==
  [][\A w \in Pair :
       Commits(w, "confirm_reset_commit")
       => /\ resp'.op = "confirm_reset" /\ resp'.status = 200
          /\ resp'.arg.token = req[w].token.token
          /\ reset_tokens'[req[w].token.id].used
          /\ \A i \in 1..Len(reset_tokens) :
               reset_tokens[i].id # req[w].token.id
               => reset_tokens'[i] = reset_tokens[i]
          /\ \E salt \in Salts :
               users'[req[w].user_id].password_hash
                 = hash_password(req[w].new_password, salt)
          /\ \A v \in ConcurrentConfirms(w) :
               /\ req'[v] = req[v]
               /\ ~verify_password(req[v].new_password,
                                   users'[req[w].user_id].password_hash)
          /\ \A i \in 1..Len(reset_tokens) :
               ( /\ resp.op = "confirm_reset" /\ resp.status = 200
                 /\ reset_tokens[i].token = resp.arg.token
                 /\ reset_tokens[i].id # req[w].token.id )
               => /\ reset_tokens'[i].used
                  /\ reset_tokens'[req[w].token.id].used]_vars

\* C36 witness: of two concurrent confirmations of one user, the first has
\* just committed and been answered 200, and the second, with another token
\* that is still unused and another new password, is still to commit.
C36_Witness ==
  /\ resp.op = "confirm_reset" /\ resp.status = 200
  /\ \E v \in Pair, i \in 1..Len(reset_tokens) :
       /\ req[v].pc = "confirm_reset_commit"
       /\ reset_tokens[i].token = resp.arg.token
       /\ reset_tokens[i].used
       /\ reset_tokens[i].user_id = req[v].user_id
       /\ req[v].token.id # reset_tokens[i].id
       /\ ~reset_tokens[req[v].token.id].used
       /\ ~verify_password(req[v].new_password,
                           users[req[v].user_id].password_hash)

\* C37: login, me and list_apikeys are read-only.  Every step of each of
\* them, whatever its input and whether it ends in success or in failure
\* (a wrong password, an unknown user, a missing or expired session token),
\* leaves all users, API keys and reset tokens unchanged.
C37_ReadOnlyOperations ==
  [][\A w \in One :
       ( \/ /\ req[w].pc = "idle"
            /\ \/ resp'.op \in {"login", "me", "list_apikeys"}
               \/ req'[w].pc \in {"login_keys", "list_apikeys_query"}
         \/ /\ req[w].pc \in {"login_keys", "list_apikeys_query"}
            /\ req'[w] # req[w] )
       => store' = store]_vars

\* C37 witness: me has just been refused 401 at an instant after the expiry
\* of the session tokens issued, with a user, an API key and a reset token
\* stored.
C37_Witness ==
  /\ resp.op = "me" /\ resp.status = 401
  /\ issued # {}
  /\ \A t \in issued : t.token.payload.exp < now
  /\ Len(users) > 0 /\ Len(api_keys) > 0 /\ Len(reset_tokens) > 0
====
